---- MODULE Spec2Model ----
(***************************************************************************)
(* Model of the OALD10 container scanner / index cache / record reader     *)
(* (lookup_word.py, create_deck.py, list_words.py) and of the markup       *)
(* extractors of create_deck.py.                                           *)
(*                                                                         *)
(* Representation.                                                         *)
(*   - bytes objects are sequences of integers 0..255;                     *)
(*   - decoded text of a container record is a sequence of code points;    *)
(*   - markup handled by the extractors is a sequence of one-character     *)
(*     strings;                                                            *)
(*   - a Python dict is the sequence of its items in insertion order.      *)
(* Python offsets are 0-based, TLA+ sequences 1-based: byte offset o of a  *)
(* bytes object s is s[o + 1].                                             *)
(***************************************************************************)
EXTENDS Integers, Sequences, FiniteSets, TLC

(***************************************************************************)
(* Generic helpers                                                         *)
(***************************************************************************)
SetMin(S) == CHOOSE x \in S : \A y \in S : x <= y

SetMax(S) == CHOOSE x \in S : \A y \in S : y <= x

RECURSIVE Concat(_)
Concat(ss) == IF ss = << >> THEN << >> ELSE Head(ss) \o Concat(Tail(ss))

\* s[a:b] of Python for 0 <= a and 0 <= b (the slice is clipped to the object).
Slice(s, a, b) ==
    LET hi == IF b < Len(s) THEN b ELSE Len(s)
    IN  IF a >= hi THEN << >> ELSE SubSeq(s, a + 1, hi)

\* Does `sub` occur in s at 0-based offset i ?
OccursAt(s, sub, i) ==
    /\ i >= 0
    /\ i + Len(sub) <= Len(s)
    /\ \A k \in 1..Len(sub) : s[i + k] = sub[k]

(***************************************************************************)
(* Container format constants                                              *)
(***************************************************************************)
\* pos = 0x60
ScanStart == 96

\* the 12-byte record header
HeaderLen == 12

\* sz1 > 500_000 ends the scan
SanityCeiling == 500000

\* The model checker's integers are 32-bit signed.  A size field is computed only
\* when it is below 2^30 (its top byte below 64); the operators below say
\* what the code does with a larger one without computing it.
FitsAt(data, off) == data[off + 4] < 64

\* struct.unpack_from("<I", data, off)[0]; the caller guarantees off + 4 <= len
U32At(data, off) ==
    data[off + 1] + 256 * data[off + 2] + 65536 * data[off + 3]
        + 16777216 * data[off + 4]

LE32(n) ==
    << n % 256, (n \div 256) % 256, (n \div 65536) % 256, (n \div 16777216) % 256 >>

(***************************************************************************)
(* zlib.decompress: the zlib header, inflate of the deflate blocks (stored, *)
(* fixed and dynamic Huffman codes) and the Adler-32 checksum.             *)
(***************************************************************************)
AdlerBase == 65521

\* the sum of bytes[lo..hi] modulo the base, by halves
RECURSIVE ByteSum(_, _, _)
ByteSum(bytes, lo, hi) ==
    IF lo > hi THEN 0
    ELSE IF lo = hi THEN bytes[lo]
    ELSE (ByteSum(bytes, lo, (lo + hi) \div 2) + ByteSum(bytes, (lo + hi) \div 2 + 1, hi)) % AdlerBase

\* the sum of (n - i + 1) * bytes[i] for i in lo..hi, modulo the base
RECURSIVE WeightedSum(_, _, _, _)
WeightedSum(bytes, lo, hi, n) ==
    IF lo > hi THEN 0
    ELSE IF lo = hi THEN ((n - lo + 1) * bytes[lo]) % AdlerBase
    ELSE (WeightedSum(bytes, lo, (lo + hi) \div 2, n)
            + WeightedSum(bytes, (lo + hi) \div 2 + 1, hi, n)) % AdlerBase

\* a: 1 plus the sum of the first n bytes
AdlerA(bytes, n) == (1 + ByteSum(bytes, 1, n)) % AdlerBase

\* b: the sum of the values a takes after each of the first n bytes
AdlerB(bytes, n) == (n + WeightedSum(bytes, 1, n, n)) % AdlerBase

\* the four bytes of the checksum b * 65536 + a, most significant first
Adler32(bytes) ==
    << AdlerB(bytes, Len(bytes)) \div 256, AdlerB(bytes, Len(bytes)) % 256,
       AdlerA(bytes, Len(bytes)) \div 256, AdlerA(bytes, Len(bytes)) % 256 >>

ZFail == [ok |-> FALSE, out |-> << >>]

\* the two-byte zlib header: CM = 8, CINFO <= 7, FCHECK, no preset dictionary
ZlibHeaderOk(bytes) ==
    /\ Len(bytes) >= 2
    /\ bytes[1] % 16 = 8
    /\ bytes[1] \div 16 <= 7
    /\ (bytes[1] * 256 + bytes[2]) % 31 = 0
    /\ (bytes[2] \div 32) % 2 = 0

\* the stream has n more bits at bit offset p
HasBits(bytes, p, n) == p + n <= 8 * Len(bytes)

ByteOr0(bytes, i) == IF i <= Len(bytes) THEN bytes[i] ELSE 0

\* the number made of the n <= 16 bits at bit offset p, the bits of a byte
\* taken from the least significant one
Bits(bytes, p, n) ==
    ((ByteOr0(bytes, p \div 8 + 1) + 256 * ByteOr0(bytes, p \div 8 + 2)
        + 65536 * ByteOr0(bytes, p \div 8 + 3)) \div 2^(p % 8)) % 2^n

\* a Huffman code given by the code length of each symbol (0: not used): the
\* number of codes of each length, and the symbols in the order of their
\* codes
HuffTable(lens) ==
    [count  |-> [n \in 1..15 |-> Cardinality({s \in 1..Len(lens) : lens[s] = n})],
     symbol |-> Concat([n \in 1..15 |->
                          SelectSeq([s \in 1..Len(lens) |-> s - 1], LAMBDA s : lens[s + 1] = n)])]

\* what is left of the code space after the codes of length 1..n
RECURSIVE CodeSpace(_, _)
CodeSpace(count, n) == IF n = 0 THEN 1 ELSE 2 * CodeSpace(count, n - 1) - count[n]

\* inflate_table accepts the set of lengths: it is complete, or (for the
\* literal/length and distance codes) it has one code of one bit, or none
HuffSetOk(tbl, complete) ==
    \/ CodeSpace(tbl.count, 15) = 0
    \/ /\ ~complete
       /\ CodeSpace(tbl.count, 15) > 0
       /\ \A n \in 2..15 : tbl.count[n] = 0

\* the symbol whose code stands at bit offset p: the code is read bit by bit,
\* `code` being the bits read before, `first` the first code of length n and
\* `index` the number of symbols with a shorter code
RECURSIVE HuffDecode(_, _, _, _, _, _, _)
RECURSIVE HuffMatch(_, _, _, _, _, _, _)
HuffDecode(bytes, p, tbl, n, code, first, index) ==
    IF n > 15 \/ ~HasBits(bytes, p, 1) THEN [ok |-> FALSE, sym |-> 0, p |-> p]
    ELSE HuffMatch(bytes, p, tbl, n, code + Bits(bytes, p, 1), first, index)

HuffMatch(bytes, p, tbl, n, code, first, index) ==
    IF code - tbl.count[n] < first
    THEN [ok |-> TRUE, sym |-> tbl.symbol[index + (code - first) + 1], p |-> p + 1]
    ELSE HuffDecode(bytes, p + 1, tbl, n + 1, 2 * code, 2 * (first + tbl.count[n]),
                    index + tbl.count[n])

\* the fixed codes of a block with BTYPE = 01
FixedLit ==
    HuffTable([s \in 1..288 |-> IF s <= 144 THEN 8 ELSE IF s <= 256 THEN 9
                                ELSE IF s <= 280 THEN 7 ELSE 8])

FixedDist == HuffTable([s \in 1..32 |-> 5])

\* lengths 257..285 and distances 0..29: base value and number of extra bits
LengthBase ==
    << 3, 4, 5, 6, 7, 8, 9, 10, 11, 13, 15, 17, 19, 23, 27, 31, 35, 43, 51, 59,
       67, 83, 99, 115, 131, 163, 195, 227, 258 >>

LengthExtra ==
    << 0, 0, 0, 0, 0, 0, 0, 0, 1, 1, 1, 1, 2, 2, 2, 2, 3, 3, 3, 3, 4, 4, 4, 4,
       5, 5, 5, 5, 0 >>

DistBase ==
    << 1, 2, 3, 4, 5, 7, 9, 13, 17, 25, 33, 49, 65, 97, 129, 193, 257, 385, 513,
       769, 1025, 1537, 2049, 3073, 4097, 6145, 8193, 12289, 16385, 24577 >>

DistExtra ==
    << 0, 0, 0, 0, 1, 1, 2, 2, 3, 3, 4, 4, 5, 5, 6, 6, 7, 7, 8, 8, 9, 9, 10, 10,
       11, 11, 12, 12, 13, 13 >>

\* the order in which a dynamic block gives the lengths of the code length codes
CodeLengthOrder == << 16, 17, 18, 0, 8, 7, 9, 6, 10, 5, 11, 4, 12, 3, 13, 2, 14, 1, 15 >>

\* The state of inflate: mode "block" (at a block header), "lens" (reading
\* the code lengths of a dynamic block), "codes" (reading the symbols of a
\* Huffman-coded block), "done" (after the last block), "fail" (Z_DATA_ERROR
\* or the end of the input); p is the bit offset, out the output so far.
InflateStart ==
    [mode |-> "block", p |-> 16, out |-> << >>, last |-> FALSE,
     nlen |-> 0, ndist |-> 0, lens |-> << >>,
     cl |-> HuffTable(<< >>), lit |-> HuffTable(<< >>), dist |-> HuffTable(<< >>)]

InflateFail(st) == [st EXCEPT !.mode = "fail"]

\* a stored block: LEN bytes copied from `from`
StoredCopy(bytes, st, from, len, nlen) ==
    IF len + nlen # 65535 \/ from + len > Len(bytes) THEN InflateFail(st)
    ELSE [st EXCEPT !.out = st.out \o Slice(bytes, from, from + len),
                    !.p = 8 * (from + len),
                    !.mode = IF st.last THEN "done" ELSE "block"]

\* a stored block whose LEN and NLEN start at byte offset q
StoredBlock(bytes, st, q) ==
    IF q + 4 > Len(bytes) THEN InflateFail(st)
    ELSE StoredCopy(bytes, st, q + 4, bytes[q + 1] + 256 * bytes[q + 2],
                    bytes[q + 3] + 256 * bytes[q + 4])

\* the code length code of a dynamic block has been read
DynamicLens(st, p, nlen, ndist, cl) ==
    IF ~HuffSetOk(cl, TRUE) THEN InflateFail(st)
    ELSE [st EXCEPT !.mode = "lens", !.p = p, !.nlen = nlen, !.ndist = ndist,
                    !.lens = << >>, !.cl = cl]

\* the header of a dynamic block, read at bit offset p: HLIT, HDIST, HCLEN
\* and the lengths of the code length codes
DynamicTable(bytes, st, p, nlen, ndist, ncode) ==
    IF nlen > 286 \/ ndist > 30 \/ ~HasBits(bytes, p, 14 + 3 * ncode) THEN InflateFail(st)
    ELSE DynamicLens(st, p + 14 + 3 * ncode, nlen, ndist,
                     HuffTable([s \in 1..19 |->
                        LET k == CHOOSE i \in 1..19 : CodeLengthOrder[i] = s - 1
                        IN  IF k <= ncode THEN Bits(bytes, p + 14 + 3 * (k - 1), 3) ELSE 0]))

DynamicBlock(bytes, st) ==
    IF ~HasBits(bytes, st.p, 14) THEN InflateFail(st)
    ELSE DynamicTable(bytes, st, st.p, Bits(bytes, st.p, 5) + 257,
                      Bits(bytes, st.p + 5, 5) + 1, Bits(bytes, st.p + 10, 4) + 4)

\* the block header has been read: BTYPE decides
BlockOfType(bytes, st, btype) ==
    IF btype = 0 THEN StoredBlock(bytes, st, (st.p + 7) \div 8)
    ELSE IF btype = 1
    THEN [st EXCEPT !.mode = "codes", !.lit = FixedLit, !.dist = FixedDist]
    ELSE IF btype = 2 THEN DynamicBlock(bytes, st)
    ELSE InflateFail(st)

BlockStep(bytes, st) ==
    IF ~HasBits(bytes, st.p, 3) THEN InflateFail(st)
    ELSE BlockOfType(bytes, [st EXCEPT !.last = (Bits(bytes, st.p, 1) = 1), !.p = st.p + 3],
                     Bits(bytes, st.p + 1, 2))

\* n more code lengths of value val
LensRepeat(st, p, val, n) ==
    IF Len(st.lens) + n > st.nlen + st.ndist THEN InflateFail(st)
    ELSE [st EXCEPT !.lens = st.lens \o [i \in 1..n |-> val], !.p = p]

\* a symbol d of the code length code has been read
LensSymbol(bytes, st, d) ==
    IF ~d.ok THEN InflateFail(st)
    ELSE IF d.sym < 16 THEN [st EXCEPT !.lens = Append(st.lens, d.sym), !.p = d.p]
    ELSE IF d.sym = 16
    THEN IF st.lens = << >> \/ ~HasBits(bytes, d.p, 2) THEN InflateFail(st)
         ELSE LensRepeat(st, d.p + 2, st.lens[Len(st.lens)], 3 + Bits(bytes, d.p, 2))
    ELSE IF d.sym = 17
    THEN IF ~HasBits(bytes, d.p, 3) THEN InflateFail(st)
         ELSE LensRepeat(st, d.p + 3, 0, 3 + Bits(bytes, d.p, 3))
    ELSE IF ~HasBits(bytes, d.p, 7) THEN InflateFail(st)
         ELSE LensRepeat(st, d.p + 7, 0, 11 + Bits(bytes, d.p, 7))

\* all the code lengths have been read: the two codes of the block
LensDone(st, lit, dist) ==
    IF st.lens[257] = 0 \/ ~HuffSetOk(lit, FALSE) \/ ~HuffSetOk(dist, FALSE)
    THEN InflateFail(st)
    ELSE [st EXCEPT !.mode = "codes", !.lit = lit, !.dist = dist]

LensStep(bytes, st) ==
    IF Len(st.lens) = st.nlen + st.ndist
    THEN LensDone(st, HuffTable(SubSeq(st.lens, 1, st.nlen)),
                  HuffTable(SubSeq(st.lens, st.nlen + 1, st.nlen + st.ndist)))
    ELSE LensSymbol(bytes, st, HuffDecode(bytes, st.p, st.cl, 1, 0, 0, 0))

\* `length` bytes copied from `dist` bytes back in the output
CopyBack(st, length, dist, p) ==
    IF dist > Len(st.out) THEN InflateFail(st)
    ELSE [st EXCEPT !.out = st.out \o [i \in 1..length |->
                                st.out[Len(st.out) - dist + 1 + ((i - 1) % dist)]],
                    !.p = p]

\* a length has been read, and the distance symbol d after it
DistSymbol(bytes, st, length, d) ==
    IF ~d.ok \/ d.sym > 29 THEN InflateFail(st)
    ELSE IF ~HasBits(bytes, d.p, DistExtra[d.sym + 1]) THEN InflateFail(st)
    ELSE CopyBack(st, length, DistBase[d.sym + 1] + Bits(bytes, d.p, DistExtra[d.sym + 1]),
                  d.p + DistExtra[d.sym + 1])

\* a literal/length symbol d has been read
CodeSymbol(bytes, st, d) ==
    IF ~d.ok THEN InflateFail(st)
    ELSE IF d.sym < 256 THEN [st EXCEPT !.out = Append(st.out, d.sym), !.p = d.p]
    ELSE IF d.sym = 256
    THEN [st EXCEPT !.mode = IF st.last THEN "done" ELSE "block", !.p = d.p]
    ELSE IF d.sym > 285 THEN InflateFail(st)
    ELSE IF ~HasBits(bytes, d.p, LengthExtra[d.sym - 256]) THEN InflateFail(st)
    ELSE DistSymbol(bytes, st,
                    LengthBase[d.sym - 256] + Bits(bytes, d.p, LengthExtra[d.sym - 256]),
                    HuffDecode(bytes, d.p + LengthExtra[d.sym - 256], st.dist, 1, 0, 0, 0))

\* one step of inflate
InflateStep(bytes, st) ==
    IF st.mode = "block" THEN BlockStep(bytes, st)
    ELSE IF st.mode = "lens" THEN LensStep(bytes, st)
    ELSE IF st.mode = "codes"
    THEN CodeSymbol(bytes, st, HuffDecode(bytes, st.p, st.lit, 1, 0, 0, 0))
    ELSE st

\* up to 2^k steps, stopping at "done" or "fail"
RECURSIVE InflateSteps(_, _, _)
InflateSteps(bytes, st, k) ==
    IF st.mode \in { "done", "fail" } THEN st
    ELSE IF k = 0 THEN InflateStep(bytes, st)
    ELSE InflateSteps(bytes, InflateSteps(bytes, st, k - 1), k - 1)

\* the steps to the end
RECURSIVE InflateRun(_, _)
InflateRun(bytes, st) ==
    IF st.mode \in { "done", "fail" } THEN st
    ELSE InflateRun(bytes, InflateSteps(bytes, st, 16))

\* after the last block: the Adler-32 checksum of the output, at the next
\* byte boundary
InflateEnd(bytes, st) ==
    IF st.mode # "done" THEN ZFail
    ELSE IF (st.p + 7) \div 8 + 4 > Len(bytes) THEN ZFail
    ELSE IF Slice(bytes, (st.p + 7) \div 8, (st.p + 7) \div 8 + 4) # Adler32(st.out) THEN ZFail
    ELSE [ok |-> TRUE, out |-> st.out]

\* inflate of the deflate data that follows the zlib header
Inflate(bytes) == InflateEnd(bytes, InflateRun(bytes, InflateStart))

\* zlib.decompress(bytes): [ok |-> FALSE] stands for zlib.error.  Bytes after
\* the end of the stream are ignored, an incomplete stream is an error.
ZlibDecompress(bytes) ==
    IF ZlibHeaderOk(bytes) THEN Inflate(bytes) ELSE ZFail

\* the third argument of the scan's zlib.decompress call
PartialBufSize == 512

\* zlib.decompress(bytes, 15, 512): the third positional argument is bufsize,
\* the initial size of the output buffer, which grows as needed; the whole
\* stream is inflated.
ZlibDecompressBuf(bytes, wbits, bufsize) == ZlibDecompress(bytes)

\* a zlib stream holding `text` in one stored block (zlib level 0)
ZlibStored(text) ==
    << 120, 1, 1 >> \o << Len(text) % 256, Len(text) \div 256 >>
        \o << (65535 - Len(text)) % 256, (65535 - Len(text)) \div 256 >>
        \o text \o Adler32(text)

(***************************************************************************)
(* Text of a record                                                        *)
(***************************************************************************)
\* U+FFFD, what errors="replace" puts for bytes that cannot be decoded
ReplacementChar == 65533

\* is the code point c inside one of the <<first, last>> ranges ?
InRanges(c, ranges) == \E r \in ranges : r[1] <= c /\ c <= r[2]

\* the length of the UTF-8 sequence the byte b starts: 1 for ASCII, 2 to 4
\* for the lead bytes C2..DF, E0..EF, F0..F4, and 0 for a byte that starts
\* no sequence (80..C1, F5..FF)
Utf8Need(b) ==
    IF b < 128 THEN 1
    ELSE IF b >= 194 /\ b <= 223 THEN 2
    ELSE IF b >= 224 /\ b <= 239 THEN 3
    ELSE IF b >= 240 /\ b <= 244 THEN 4
    ELSE 0

\* may b be the k-th byte after `lead` ?  A continuation byte is 80..BF; the
\* first one is narrowed after E0 and F0 (no overlong forms), after ED (no
\* surrogates) and after F4 (nothing above U+10FFFF)
Utf8Follows(lead, k, b) ==
    IF k = 1
    THEN /\ b >= (IF lead = 224 THEN 160 ELSE IF lead = 240 THEN 144 ELSE 128)
         /\ b <= (IF lead = 237 THEN 159 ELSE IF lead = 244 THEN 143 ELSE 191)
    ELSE b >= 128 /\ b <= 191

\* how many of the bytes after index s continue the sequence bytes[s] starts
Utf8Taken(bytes, s) ==
    LET lead == bytes[s]
        need == Utf8Need(lead)
    IN  IF need <= 1 THEN 0
        ELSE SetMax({k \in 0..(need - 1) :
                       /\ s + k <= Len(bytes)
                       /\ \A j \in 1..k : Utf8Follows(lead, j, bytes[s + j])})

\* the byte at index i belongs to the sequence a lead byte before it starts
Utf8Absorbed(bytes, i) ==
    \E k \in 1..3 : /\ i - k >= 1
                    /\ Utf8Need(bytes[i - k]) > k
                    /\ Utf8Taken(bytes, i - k) >= k

\* what the bytes from index s on decode to, for an s that belongs to no
\* earlier sequence: the code point of a whole sequence; or U+FFFD, once,
\* for a byte that starts no sequence and for a sequence that is cut short
\* by another byte or by the end of the data
Utf8Unit(bytes, s) ==
    LET need == Utf8Need(bytes[s])
        low(k) == bytes[s + k] % 64
    IN  IF need = 1 THEN bytes[s]
        ELSE IF need = 0 \/ Utf8Taken(bytes, s) < need - 1 THEN ReplacementChar
        ELSE IF need = 2 THEN (bytes[s] % 32) * 64 + low(1)
        ELSE IF need = 3 THEN (bytes[s] % 16) * 4096 + low(1) * 64 + low(2)
        ELSE (bytes[s] % 8) * 262144 + low(1) * 4096 + low(2) * 64 + low(3)

\* bytes.decode("utf-8", errors="replace")
Utf8Decode(bytes) ==
    LET starts == SelectSeq([i \in 1..Len(bytes) |-> i],
                            LAMBDA i : ~Utf8Absorbed(bytes, i))
    IN  [j \in 1..Len(starts) |-> Utf8Unit(bytes, starts[j])]

\* the code points that str.lower() changes into one other code point, as
\* <<first, last, step, delta>>: first, first + step, ..., last each go to
\* themselves plus delta
LowerRuns ==
    {
      <<65, 90, 1, 32>>, <<192, 214, 1, 32>>, <<216, 222, 1, 32>>,
      <<256, 302, 2, 1>>, <<306, 310, 2, 1>>, <<313, 327, 2, 1>>,
      <<330, 374, 2, 1>>, <<376, 376, 1, -121>>, <<377, 381, 2, 1>>,
      <<385, 385, 1, 210>>, <<386, 388, 2, 1>>, <<390, 390, 1, 206>>,
      <<391, 391, 1, 1>>, <<393, 394, 1, 205>>, <<395, 395, 1, 1>>,
      <<398, 398, 1, 79>>, <<399, 399, 1, 202>>, <<400, 400, 1, 203>>,
      <<401, 401, 1, 1>>, <<403, 403, 1, 205>>, <<404, 404, 1, 207>>,
      <<406, 406, 1, 211>>, <<407, 407, 1, 209>>, <<408, 408, 1, 1>>,
      <<412, 412, 1, 211>>, <<413, 413, 1, 213>>, <<415, 415, 1, 214>>,
      <<416, 420, 2, 1>>, <<422, 422, 1, 218>>, <<423, 423, 1, 1>>,
      <<425, 425, 1, 218>>, <<428, 428, 1, 1>>, <<430, 430, 1, 218>>,
      <<431, 431, 1, 1>>, <<433, 434, 1, 217>>, <<435, 437, 2, 1>>,
      <<439, 439, 1, 219>>, <<440, 440, 1, 1>>, <<444, 444, 1, 1>>,
      <<452, 452, 1, 2>>, <<453, 453, 1, 1>>, <<455, 455, 1, 2>>,
      <<456, 456, 1, 1>>, <<458, 458, 1, 2>>, <<459, 475, 2, 1>>,
      <<478, 494, 2, 1>>, <<497, 497, 1, 2>>, <<498, 500, 2, 1>>,
      <<502, 502, 1, -97>>, <<503, 503, 1, -56>>, <<504, 542, 2, 1>>,
      <<544, 544, 1, -130>>, <<546, 562, 2, 1>>, <<570, 570, 1, 10795>>,
      <<571, 571, 1, 1>>, <<573, 573, 1, -163>>, <<574, 574, 1, 10792>>,
      <<577, 577, 1, 1>>, <<579, 579, 1, -195>>, <<580, 580, 1, 69>>,
      <<581, 581, 1, 71>>, <<582, 590, 2, 1>>, <<880, 882, 2, 1>>,
      <<886, 886, 1, 1>>, <<895, 895, 1, 116>>, <<902, 902, 1, 38>>,
      <<904, 906, 1, 37>>, <<908, 908, 1, 64>>, <<910, 911, 1, 63>>,
      <<913, 929, 1, 32>>, <<931, 939, 1, 32>>, <<975, 975, 1, 8>>,
      <<984, 1006, 2, 1>>, <<1012, 1012, 1, -60>>, <<1015, 1015, 1, 1>>,
      <<1017, 1017, 1, -7>>, <<1018, 1018, 1, 1>>, <<1021, 1023, 1, -130>>,
      <<1024, 1039, 1, 80>>, <<1040, 1071, 1, 32>>, <<1120, 1152, 2, 1>>,
      <<1162, 1214, 2, 1>>, <<1216, 1216, 1, 15>>, <<1217, 1229, 2, 1>>,
      <<1232, 1326, 2, 1>>, <<1329, 1366, 1, 48>>, <<4256, 4293, 1, 7264>>,
      <<4295, 4295, 1, 7264>>, <<4301, 4301, 1, 7264>>,
      <<5024, 5103, 1, 38864>>, <<5104, 5109, 1, 8>>, <<7312, 7354, 1, -3008>>,
      <<7357, 7359, 1, -3008>>, <<7680, 7828, 2, 1>>, <<7838, 7838, 1, -7615>>,
      <<7840, 7934, 2, 1>>, <<7944, 7951, 1, -8>>, <<7960, 7965, 1, -8>>,
      <<7976, 7983, 1, -8>>, <<7992, 7999, 1, -8>>, <<8008, 8013, 1, -8>>,
      <<8025, 8031, 2, -8>>, <<8040, 8047, 1, -8>>, <<8072, 8079, 1, -8>>,
      <<8088, 8095, 1, -8>>, <<8104, 8111, 1, -8>>, <<8120, 8121, 1, -8>>,
      <<8122, 8123, 1, -74>>, <<8124, 8124, 1, -9>>, <<8136, 8139, 1, -86>>,
      <<8140, 8140, 1, -9>>, <<8152, 8153, 1, -8>>, <<8154, 8155, 1, -100>>,
      <<8168, 8169, 1, -8>>, <<8170, 8171, 1, -112>>, <<8172, 8172, 1, -7>>,
      <<8184, 8185, 1, -128>>, <<8186, 8187, 1, -126>>, <<8188, 8188, 1, -9>>,
      <<8486, 8486, 1, -7517>>, <<8490, 8490, 1, -8383>>,
      <<8491, 8491, 1, -8262>>, <<8498, 8498, 1, 28>>, <<8544, 8559, 1, 16>>,
      <<8579, 8579, 1, 1>>, <<9398, 9423, 1, 26>>, <<11264, 11311, 1, 48>>,
      <<11360, 11360, 1, 1>>, <<11362, 11362, 1, -10743>>,
      <<11363, 11363, 1, -3814>>, <<11364, 11364, 1, -10727>>,
      <<11367, 11371, 2, 1>>, <<11373, 11373, 1, -10780>>,
      <<11374, 11374, 1, -10749>>, <<11375, 11375, 1, -10783>>,
      <<11376, 11376, 1, -10782>>, <<11378, 11378, 1, 1>>,
      <<11381, 11381, 1, 1>>, <<11390, 11391, 1, -10815>>,
      <<11392, 11490, 2, 1>>, <<11499, 11501, 2, 1>>, <<11506, 11506, 1, 1>>,
      <<42560, 42604, 2, 1>>, <<42624, 42650, 2, 1>>, <<42786, 42798, 2, 1>>,
      <<42802, 42862, 2, 1>>, <<42873, 42875, 2, 1>>,
      <<42877, 42877, 1, -35332>>, <<42878, 42886, 2, 1>>,
      <<42891, 42891, 1, 1>>, <<42893, 42893, 1, -42280>>,
      <<42896, 42898, 2, 1>>, <<42902, 42920, 2, 1>>,
      <<42922, 42922, 1, -42308>>, <<42923, 42923, 1, -42319>>,
      <<42924, 42924, 1, -42315>>, <<42925, 42925, 1, -42305>>,
      <<42926, 42926, 1, -42308>>, <<42928, 42928, 1, -42258>>,
      <<42929, 42929, 1, -42282>>, <<42930, 42930, 1, -42261>>,
      <<42931, 42931, 1, 928>>, <<42932, 42946, 2, 1>>,
      <<42948, 42948, 1, -48>>, <<42949, 42949, 1, -42307>>,
      <<42950, 42950, 1, -35384>>, <<42951, 42953, 2, 1>>,
      <<42960, 42960, 1, 1>>, <<42966, 42968, 2, 1>>, <<42997, 42997, 1, 1>>,
      <<65313, 65338, 1, 32>>, <<66560, 66599, 1, 40>>, <<66736, 66771, 1, 40>>,
      <<66928, 66938, 1, 39>>, <<66940, 66954, 1, 39>>, <<66956, 66962, 1, 39>>,
      <<66964, 66965, 1, 39>>, <<68736, 68786, 1, 64>>, <<71840, 71871, 1, 32>>,
      <<93760, 93791, 1, 32>>, <<125184, 125217, 1, 34>>
    }

\* the case-ignorable code points, as <<first, last>> ranges
CaseIgnorableRanges ==
    {
      <<39, 39>>, <<46, 46>>, <<58, 58>>, <<94, 94>>, <<96, 96>>, <<168, 168>>,
      <<173, 173>>, <<175, 175>>, <<180, 180>>, <<183, 184>>, <<688, 879>>,
      <<884, 885>>, <<890, 890>>, <<900, 901>>, <<903, 903>>, <<1155, 1161>>,
      <<1369, 1369>>, <<1375, 1375>>, <<1425, 1469>>, <<1471, 1471>>,
      <<1473, 1474>>, <<1476, 1477>>, <<1479, 1479>>, <<1524, 1524>>,
      <<1536, 1541>>, <<1552, 1562>>, <<1564, 1564>>, <<1600, 1600>>,
      <<1611, 1631>>, <<1648, 1648>>, <<1750, 1757>>, <<1759, 1768>>,
      <<1770, 1773>>, <<1807, 1807>>, <<1809, 1809>>, <<1840, 1866>>,
      <<1958, 1968>>, <<2027, 2037>>, <<2042, 2042>>, <<2045, 2045>>,
      <<2070, 2093>>, <<2137, 2139>>, <<2184, 2184>>, <<2192, 2193>>,
      <<2200, 2207>>, <<2249, 2306>>, <<2362, 2362>>, <<2364, 2364>>,
      <<2369, 2376>>, <<2381, 2381>>, <<2385, 2391>>, <<2402, 2403>>,
      <<2417, 2417>>, <<2433, 2433>>, <<2492, 2492>>, <<2497, 2500>>,
      <<2509, 2509>>, <<2530, 2531>>, <<2558, 2558>>, <<2561, 2562>>,
      <<2620, 2620>>, <<2625, 2626>>, <<2631, 2632>>, <<2635, 2637>>,
      <<2641, 2641>>, <<2672, 2673>>, <<2677, 2677>>, <<2689, 2690>>,
      <<2748, 2748>>, <<2753, 2757>>, <<2759, 2760>>, <<2765, 2765>>,
      <<2786, 2787>>, <<2810, 2815>>, <<2817, 2817>>, <<2876, 2876>>,
      <<2879, 2879>>, <<2881, 2884>>, <<2893, 2893>>, <<2901, 2902>>,
      <<2914, 2915>>, <<2946, 2946>>, <<3008, 3008>>, <<3021, 3021>>,
      <<3072, 3072>>, <<3076, 3076>>, <<3132, 3132>>, <<3134, 3136>>,
      <<3142, 3144>>, <<3146, 3149>>, <<3157, 3158>>, <<3170, 3171>>,
      <<3201, 3201>>, <<3260, 3260>>, <<3263, 3263>>, <<3270, 3270>>,
      <<3276, 3277>>, <<3298, 3299>>, <<3328, 3329>>, <<3387, 3388>>,
      <<3393, 3396>>, <<3405, 3405>>, <<3426, 3427>>, <<3457, 3457>>,
      <<3530, 3530>>, <<3538, 3540>>, <<3542, 3542>>, <<3633, 3633>>,
      <<3636, 3642>>, <<3654, 3662>>, <<3761, 3761>>, <<3764, 3772>>,
      <<3782, 3782>>, <<3784, 3789>>, <<3864, 3865>>, <<3893, 3893>>,
      <<3895, 3895>>, <<3897, 3897>>, <<3953, 3966>>, <<3968, 3972>>,
      <<3974, 3975>>, <<3981, 3991>>, <<3993, 4028>>, <<4038, 4038>>,
      <<4141, 4144>>, <<4146, 4151>>, <<4153, 4154>>, <<4157, 4158>>,
      <<4184, 4185>>, <<4190, 4192>>, <<4209, 4212>>, <<4226, 4226>>,
      <<4229, 4230>>, <<4237, 4237>>, <<4253, 4253>>, <<4348, 4348>>,
      <<4957, 4959>>, <<5906, 5908>>, <<5938, 5939>>, <<5970, 5971>>,
      <<6002, 6003>>, <<6068, 6069>>, <<6071, 6077>>, <<6086, 6086>>,
      <<6089, 6099>>, <<6103, 6103>>, <<6109, 6109>>, <<6155, 6159>>,
      <<6211, 6211>>, <<6277, 6278>>, <<6313, 6313>>, <<6432, 6434>>,
      <<6439, 6440>>, <<6450, 6450>>, <<6457, 6459>>, <<6679, 6680>>,
      <<6683, 6683>>, <<6742, 6742>>, <<6744, 6750>>, <<6752, 6752>>,
      <<6754, 6754>>, <<6757, 6764>>, <<6771, 6780>>, <<6783, 6783>>,
      <<6823, 6823>>, <<6832, 6862>>, <<6912, 6915>>, <<6964, 6964>>,
      <<6966, 6970>>, <<6972, 6972>>, <<6978, 6978>>, <<7019, 7027>>,
      <<7040, 7041>>, <<7074, 7077>>, <<7080, 7081>>, <<7083, 7085>>,
      <<7142, 7142>>, <<7144, 7145>>, <<7149, 7149>>, <<7151, 7153>>,
      <<7212, 7219>>, <<7222, 7223>>, <<7288, 7293>>, <<7376, 7378>>,
      <<7380, 7392>>, <<7394, 7400>>, <<7405, 7405>>, <<7412, 7412>>,
      <<7416, 7417>>, <<7468, 7530>>, <<7544, 7544>>, <<7579, 7679>>,
      <<8125, 8125>>, <<8127, 8129>>, <<8141, 8143>>, <<8157, 8159>>,
      <<8173, 8175>>, <<8189, 8190>>, <<8203, 8207>>, <<8216, 8217>>,
      <<8228, 8228>>, <<8231, 8231>>, <<8234, 8238>>, <<8288, 8292>>,
      <<8294, 8303>>, <<8305, 8305>>, <<8319, 8319>>, <<8336, 8348>>,
      <<8400, 8432>>, <<11388, 11389>>, <<11503, 11505>>, <<11631, 11631>>,
      <<11647, 11647>>, <<11744, 11775>>, <<11823, 11823>>, <<12293, 12293>>,
      <<12330, 12333>>, <<12337, 12341>>, <<12347, 12347>>, <<12441, 12446>>,
      <<12540, 12542>>, <<40981, 40981>>, <<42232, 42237>>, <<42508, 42508>>,
      <<42607, 42610>>, <<42612, 42621>>, <<42623, 42623>>, <<42652, 42655>>,
      <<42736, 42737>>, <<42752, 42785>>, <<42864, 42864>>, <<42888, 42890>>,
      <<42994, 42996>>, <<43000, 43001>>, <<43010, 43010>>, <<43014, 43014>>,
      <<43019, 43019>>, <<43045, 43046>>, <<43052, 43052>>, <<43204, 43205>>,
      <<43232, 43249>>, <<43263, 43263>>, <<43302, 43309>>, <<43335, 43345>>,
      <<43392, 43394>>, <<43443, 43443>>, <<43446, 43449>>, <<43452, 43453>>,
      <<43471, 43471>>, <<43493, 43494>>, <<43561, 43566>>, <<43569, 43570>>,
      <<43573, 43574>>, <<43587, 43587>>, <<43596, 43596>>, <<43632, 43632>>,
      <<43644, 43644>>, <<43696, 43696>>, <<43698, 43700>>, <<43703, 43704>>,
      <<43710, 43711>>, <<43713, 43713>>, <<43741, 43741>>, <<43756, 43757>>,
      <<43763, 43764>>, <<43766, 43766>>, <<43867, 43871>>, <<43881, 43883>>,
      <<44005, 44005>>, <<44008, 44008>>, <<44013, 44013>>, <<64286, 64286>>,
      <<64434, 64450>>, <<65024, 65039>>, <<65043, 65043>>, <<65056, 65071>>,
      <<65106, 65106>>, <<65109, 65109>>, <<65279, 65279>>, <<65287, 65287>>,
      <<65294, 65294>>, <<65306, 65306>>, <<65342, 65342>>, <<65344, 65344>>,
      <<65392, 65392>>, <<65438, 65439>>, <<65507, 65507>>, <<65529, 65531>>,
      <<66045, 66045>>, <<66272, 66272>>, <<66422, 66426>>, <<67456, 67461>>,
      <<67463, 67504>>, <<67506, 67514>>, <<68097, 68099>>, <<68101, 68102>>,
      <<68108, 68111>>, <<68152, 68154>>, <<68159, 68159>>, <<68325, 68326>>,
      <<68900, 68903>>, <<69291, 69292>>, <<69446, 69456>>, <<69506, 69509>>,
      <<69633, 69633>>, <<69688, 69702>>, <<69744, 69744>>, <<69747, 69748>>,
      <<69759, 69761>>, <<69811, 69814>>, <<69817, 69818>>, <<69821, 69821>>,
      <<69826, 69826>>, <<69837, 69837>>, <<69888, 69890>>, <<69927, 69931>>,
      <<69933, 69940>>, <<70003, 70003>>, <<70016, 70017>>, <<70070, 70078>>,
      <<70089, 70092>>, <<70095, 70095>>, <<70191, 70193>>, <<70196, 70196>>,
      <<70198, 70199>>, <<70206, 70206>>, <<70367, 70367>>, <<70371, 70378>>,
      <<70400, 70401>>, <<70459, 70460>>, <<70464, 70464>>, <<70502, 70508>>,
      <<70512, 70516>>, <<70712, 70719>>, <<70722, 70724>>, <<70726, 70726>>,
      <<70750, 70750>>, <<70835, 70840>>, <<70842, 70842>>, <<70847, 70848>>,
      <<70850, 70851>>, <<71090, 71093>>, <<71100, 71101>>, <<71103, 71104>>,
      <<71132, 71133>>, <<71219, 71226>>, <<71229, 71229>>, <<71231, 71232>>,
      <<71339, 71339>>, <<71341, 71341>>, <<71344, 71349>>, <<71351, 71351>>,
      <<71453, 71455>>, <<71458, 71461>>, <<71463, 71467>>, <<71727, 71735>>,
      <<71737, 71738>>, <<71995, 71996>>, <<71998, 71998>>, <<72003, 72003>>,
      <<72148, 72151>>, <<72154, 72155>>, <<72160, 72160>>, <<72193, 72202>>,
      <<72243, 72248>>, <<72251, 72254>>, <<72263, 72263>>, <<72273, 72278>>,
      <<72281, 72283>>, <<72330, 72342>>, <<72344, 72345>>, <<72752, 72758>>,
      <<72760, 72765>>, <<72767, 72767>>, <<72850, 72871>>, <<72874, 72880>>,
      <<72882, 72883>>, <<72885, 72886>>, <<73009, 73014>>, <<73018, 73018>>,
      <<73020, 73021>>, <<73023, 73029>>, <<73031, 73031>>, <<73104, 73105>>,
      <<73109, 73109>>, <<73111, 73111>>, <<73459, 73460>>, <<78896, 78904>>,
      <<92912, 92916>>, <<92976, 92982>>, <<92992, 92995>>, <<94031, 94031>>,
      <<94095, 94111>>, <<94176, 94177>>, <<94179, 94180>>, <<110576, 110579>>,
      <<110581, 110587>>, <<110589, 110590>>, <<113821, 113822>>,
      <<113824, 113827>>, <<118528, 118573>>, <<118576, 118598>>,
      <<119143, 119145>>, <<119155, 119170>>, <<119173, 119179>>,
      <<119210, 119213>>, <<119362, 119364>>, <<121344, 121398>>,
      <<121403, 121452>>, <<121461, 121461>>, <<121476, 121476>>,
      <<121499, 121503>>, <<121505, 121519>>, <<122880, 122886>>,
      <<122888, 122904>>, <<122907, 122913>>, <<122915, 122916>>,
      <<122918, 122922>>, <<123184, 123197>>, <<123566, 123566>>,
      <<123628, 123631>>, <<125136, 125142>>, <<125252, 125259>>,
      <<127995, 127999>>, <<917505, 917505>>, <<917536, 917631>>,
      <<917760, 917999>>
    }

\* the cased code points that are not case-ignorable, as <<first, last>> ranges
CasedRanges ==
    {
      <<65, 90>>, <<97, 122>>, <<170, 170>>, <<181, 181>>, <<186, 186>>,
      <<192, 214>>, <<216, 246>>, <<248, 442>>, <<444, 447>>, <<452, 659>>,
      <<661, 687>>, <<880, 883>>, <<886, 887>>, <<891, 893>>, <<895, 895>>,
      <<902, 902>>, <<904, 906>>, <<908, 908>>, <<910, 929>>, <<931, 1013>>,
      <<1015, 1153>>, <<1162, 1327>>, <<1329, 1366>>, <<1376, 1416>>,
      <<4256, 4293>>, <<4295, 4295>>, <<4301, 4301>>, <<4304, 4346>>,
      <<4349, 4351>>, <<5024, 5109>>, <<5112, 5117>>, <<7296, 7304>>,
      <<7312, 7354>>, <<7357, 7359>>, <<7424, 7467>>, <<7531, 7543>>,
      <<7545, 7578>>, <<7680, 7957>>, <<7960, 7965>>, <<7968, 8005>>,
      <<8008, 8013>>, <<8016, 8023>>, <<8025, 8025>>, <<8027, 8027>>,
      <<8029, 8029>>, <<8031, 8061>>, <<8064, 8116>>, <<8118, 8124>>,
      <<8126, 8126>>, <<8130, 8132>>, <<8134, 8140>>, <<8144, 8147>>,
      <<8150, 8155>>, <<8160, 8172>>, <<8178, 8180>>, <<8182, 8188>>,
      <<8450, 8450>>, <<8455, 8455>>, <<8458, 8467>>, <<8469, 8469>>,
      <<8473, 8477>>, <<8484, 8484>>, <<8486, 8486>>, <<8488, 8488>>,
      <<8490, 8493>>, <<8495, 8500>>, <<8505, 8505>>, <<8508, 8511>>,
      <<8517, 8521>>, <<8526, 8526>>, <<8544, 8575>>, <<8579, 8580>>,
      <<9398, 9449>>, <<11264, 11387>>, <<11390, 11492>>, <<11499, 11502>>,
      <<11506, 11507>>, <<11520, 11557>>, <<11559, 11559>>, <<11565, 11565>>,
      <<42560, 42605>>, <<42624, 42651>>, <<42786, 42863>>, <<42865, 42887>>,
      <<42891, 42894>>, <<42896, 42954>>, <<42960, 42961>>, <<42963, 42963>>,
      <<42965, 42969>>, <<42997, 42998>>, <<43002, 43002>>, <<43824, 43866>>,
      <<43872, 43880>>, <<43888, 43967>>, <<64256, 64262>>, <<64275, 64279>>,
      <<65313, 65338>>, <<65345, 65370>>, <<66560, 66639>>, <<66736, 66771>>,
      <<66776, 66811>>, <<66928, 66938>>, <<66940, 66954>>, <<66956, 66962>>,
      <<66964, 66965>>, <<66967, 66977>>, <<66979, 66993>>, <<66995, 67001>>,
      <<67003, 67004>>, <<68736, 68786>>, <<68800, 68850>>, <<71840, 71903>>,
      <<93760, 93823>>, <<119808, 119892>>, <<119894, 119964>>,
      <<119966, 119967>>, <<119970, 119970>>, <<119973, 119974>>,
      <<119977, 119980>>, <<119982, 119993>>, <<119995, 119995>>,
      <<119997, 120003>>, <<120005, 120069>>, <<120071, 120074>>,
      <<120077, 120084>>, <<120086, 120092>>, <<120094, 120121>>,
      <<120123, 120126>>, <<120128, 120132>>, <<120134, 120134>>,
      <<120138, 120144>>, <<120146, 120485>>, <<120488, 120512>>,
      <<120514, 120538>>, <<120540, 120570>>, <<120572, 120596>>,
      <<120598, 120628>>, <<120630, 120654>>, <<120656, 120686>>,
      <<120688, 120712>>, <<120714, 120744>>, <<120746, 120770>>,
      <<120772, 120779>>, <<122624, 122633>>, <<122635, 122654>>,
      <<125184, 125251>>, <<127280, 127305>>, <<127312, 127337>>,
      <<127344, 127369>>
    }

\* what str.lower() makes of the code point c on its own: U+0130 becomes two
\* code points, a code point of LowerRuns moves by its delta, any other stays
LowerChar(c) ==
    LET runs == {r \in LowerRuns : r[1] <= c /\ c <= r[2] /\ (c - r[1]) % r[3] = 0}
    IN  IF c = 304 THEN << 105, 775 >>
        ELSE IF runs = {} THEN << c >>
        ELSE << c + (CHOOSE r \in runs : TRUE)[4] >>

\* the capital sigma at index i of s is a final one: the nearest code point
\* before it that is not case-ignorable is cased, and the nearest one after
\* it, if any, is not
FinalSigma(s, i) ==
    LET before == {j \in 1..(i - 1) : ~InRanges(s[j], CaseIgnorableRanges)}
        after  == {j \in (i + 1)..Len(s) : ~InRanges(s[j], CaseIgnorableRanges)}
    IN  /\ before # {}
        /\ InRanges(s[SetMax(before)], CasedRanges)
        /\ after = {} \/ ~InRanges(s[SetMin(after)], CasedRanges)

\* str.lower(): each code point by LowerChar, but U+03A3 becomes U+03C2 where
\* it is a final sigma
Lower(s) ==
    Concat([i \in 1..Len(s) |->
              IF s[i] = 931 /\ FinalSigma(s, i) THEN << 962 >> ELSE LowerChar(s[i])])

\* the code points that are whitespace for str.strip(), str.isspace() and \s of
\* a str pattern, as <<first, last>> ranges
WhitespaceRanges ==
    {
      <<9, 13>>, <<28, 32>>, <<133, 133>>, <<160, 160>>, <<5760, 5760>>,
      <<8192, 8202>>, <<8232, 8233>>, <<8239, 8239>>, <<8287, 8287>>,
      <<12288, 12288>>
    }

\* the characters str.strip() removes (str.isspace)
IsSpace(c) == InRanges(c, WhitespaceRanges)

\* str.strip()
Strip(s) ==
    LET keep == {i \in 1..Len(s) : ~IsSpace(s[i])}
    IN  IF keep = {} THEN << >> ELSE SubSeq(s, SetMin(keep), SetMax(keep))

\* the bytes of  d:title="
TitlePrefix == << 100, 58, 116, 105, 116, 108, 101, 61, 34 >>

\* the byte "
Quote == 34

\* re.search(rb'd:title="([^"]+)"', text): the leftmost offset at which the
\* prefix is followed by one or more non-quote bytes and a closing quote;
\* group(1) is what stands between the quotes.
SearchTitle(text) ==
    LET closing(i) == {j \in (i + Len(TitlePrefix))..(Len(text) - 1) : text[j + 1] = Quote}
        matches == {i \in 0..(Len(text) - 1) :
                       /\ OccursAt(text, TitlePrefix, i)
                       /\ closing(i) # {}
                       /\ SetMin(closing(i)) > i + Len(TitlePrefix)}
    IN  IF matches = {} THEN [found |-> FALSE, group |-> << >>]
        ELSE LET i == SetMin(matches)
             IN  [found |-> TRUE,
                  group |-> Slice(text, i + Len(TitlePrefix), SetMin(closing(i)))]

(***************************************************************************)
(* dict and the JSON cache file                                            *)
(***************************************************************************)
DictKeys(d) == {d[i].k : i \in 1..Len(d)}

DictHas(d, key) == \E i \in 1..Len(d) : d[i].k = key

\* d[key], for a key of d
DictGet(d, key) == d[CHOOSE i \in 1..Len(d) : d[i].k = key].v

\* mutant of DictSet: an existing key keeps its first value
DictSet_KeepFirst(d, key, value) ==
    IF DictHas(d, key) THEN d ELSE Append(d, [k |-> key, v |-> value])

\* d[key] = value: an existing key keeps its place and takes the new value
DictSet(d, key, value) ==
    IF DictHas(d, key)
    THEN [i \in 1..Len(d) |-> IF d[i].k = key THEN [k |-> key, v |-> value] ELSE d[i]]
    ELSE Append(d, [k |-> key, v |-> value])

\* json.dumps(index, ensure_ascii=False): the members of the JSON object, one
\* <<name, number>> per item, in the dict's order.  The names are sequences
\* of code points; write_text and read_text encode and decode them with the
\* same (UTF-8) encoding, and Utf8Decode yields no surrogate, so every name
\* comes back as it was written
JsonDumps(d) == [i \in 1..Len(d) |-> << d[i].k, d[i].v >>]

\* json.loads(text): the members set one after the other into a new dict
RECURSIVE JsonLoadsFrom(_, _)
JsonLoadsFrom(members, d) ==
    IF members = << >> THEN d
    ELSE JsonLoadsFrom(Tail(members), DictSet(d, Head(members)[1], Head(members)[2]))

JsonLoads(members) == JsonLoadsFrom(members, << >>)

\* INDEX_CACHE when the file does not exist
NoFile == [exists |-> FALSE, members |-> << >>]

\* INDEX_CACHE.write_text(text)
FileWith(text) == [exists |-> TRUE, members |-> text]

(***************************************************************************)
(* One iteration of the scan loop                                          *)
(***************************************************************************)
\* while pos < len(data) - 12
LoopGuard(data, pos) == pos < Len(data) - HeaderLen

\* if sz1 == 0 or sz1 > 500_000: break
StopCond(sz1) == sz1 = 0 \/ sz1 > SanityCeiling

\* the loop is left at pos: the guard is false, or the header read there has
\* a sz1 that breaks
LoopEnds(data, pos) ==
    IF ~LoopGuard(data, pos) THEN TRUE
    ELSE IF ~FitsAt(data, pos) THEN TRUE       \* sz1 >= 2^30 > 500_000
    ELSE StopCond(U32At(data, pos))

ZlibStartOf(pos) == pos + HeaderLen

\* compressed_size = sz2 - 4   (a Python int: negative for sz2 < 4)
CompressedSizeOf(sz2) == sz2 - 4

\* The try block: the decompressed record and the title match.  [found |->
\* FALSE] covers both zlib.error and no match.
RecordTitle(data, pos) ==
    LET zlib_start      == ZlibStartOf(pos)
        compressed_size == CompressedSizeOf(U32At(data, pos + 4))
        partial == ZlibDecompressBuf(Slice(data, zlib_start, zlib_start + compressed_size),
                                     15, PartialBufSize)
    IN  IF ~partial.ok THEN [found |-> FALSE, group |-> << >>]
        ELSE SearchTitle(partial.out)

\* mutant of IndexPut: the payload offset is stored instead of the header offset
IndexPut_ZlibStart(index, group, pos) ==
    DictSet(index, Lower(Utf8Decode(group)), ZlibStartOf(pos))

\* index[title.lower()] = pos
IndexPut(index, group, pos) == DictSet(index, Lower(Utf8Decode(group)), pos)

\* mutant of IndexAfter: the cursor is advanced before the entry is stored
IndexAfter_NextHeader(index, data, pos) ==
    LET m == RecordTitle(data, pos)
    IN  IF m.found
        THEN DictSet(index, Lower(Utf8Decode(m.group)),
                     ZlibStartOf(pos) + CompressedSizeOf(U32At(data, pos + 4)))
        ELSE index

\* the index after the try block of the iteration at pos
IndexAfter(index, data, pos) ==
    LET m == RecordTitle(data, pos)
    IN  IF m.found THEN IndexPut(index, m.group, pos) ELSE index

\* mutant of NextPos: a record that gives no entry is skipped by its header only
NextPos_HeaderOnlyOnFailure(data, pos) ==
    IF RecordTitle(data, pos).found
    THEN ZlibStartOf(pos) + CompressedSizeOf(U32At(data, pos + 4))
    ELSE ZlibStartOf(pos)

\* pos = zlib_start + compressed_size
NextPos(data, pos) == ZlibStartOf(pos) + CompressedSizeOf(U32At(data, pos + 4))

(***************************************************************************)
(* get_entry_html                                                          *)
(***************************************************************************)
None == [kind |-> "None", text |-> << >>]

\* an exception leaves get_entry_html (struct.error, ValueError, zlib.error)
Raised == [kind |-> "raised", text |-> << >>]

Text(t) == [kind |-> "text", text |-> t]

\* mutant of LookupKey: the word is not stripped
LookupKey_NoStrip(word) == Lower(word)

\* key = word.lower().strip()
LookupKey(word) == Strip(Lower(word))

\* f.seek(pos); header = f.read(12); sz2 = ...; compressed = f.read(sz2 - 4);
\* zlib.decompress(compressed).decode("utf-8", errors="replace")
\* read(-1) reads to the end of the file, read(n) for n < -1 raises ValueError,
\* a header shorter than 8 bytes makes unpack_from raise struct.error.
ReadRecord(body, pos) ==
    LET header == Slice(body, pos, pos + HeaderLen)
    IN  IF Len(header) < 8 THEN Raised
        ELSE
          LET big == ~FitsAt(header, 4)      \* sz2 - 4 exceeds the file: read to its end
              n == IF big THEN -1 ELSE U32At(header, 4) - 4
              compressed == IF n = -1 THEN Slice(body, pos + HeaderLen, Len(body))
                            ELSE Slice(body, pos + HeaderLen, pos + HeaderLen + n)
              z == ZlibDecompress(compressed)
          IN  IF n < -1 THEN Raised
              ELSE IF ~z.ok THEN Raised
              ELSE Text(Utf8Decode(z.out))

get_entry_html(index, word, body) ==
    LET key == LookupKey(word)
    IN  IF ~DictHas(index, key) THEN None
        ELSE ReadRecord(body, DictGet(index, key))

(***************************************************************************)
(* Markup strings: str.find, str.rfind, slicing                            *)
(***************************************************************************)
\* s.find(sub, start): the lowest offset >= start at which sub occurs, or -1;
\* a negative start counts from the end of s
Find(s, sub, start) ==
    LET from == IF start >= 0 THEN start
                ELSE IF start + Len(s) >= 0 THEN start + Len(s) ELSE 0
        hits == {i \in from..(Len(s) - Len(sub)) : OccursAt(s, sub, i)}
    IN  IF hits = {} THEN -1 ELSE SetMin(hits)

\* s.rfind(sub, start, end) for 0 <= start <= end <= len(s): the highest offset
\* at which sub occurs within s[start:end], or -1
RFind(s, sub, start, end) ==
    LET hits == {i \in start..(end - Len(sub)) : OccursAt(s, sub, i)}
    IN  IF hits = {} THEN -1 ELSE SetMax(hits)

\* sub in s
Contains(s, sub) == Find(s, sub, 0) # -1

(***************************************************************************)
(* extract_span                                                            *)
(***************************************************************************)
\* the result None of a function returning str | None
NoStr == [some |-> FALSE, s |-> << >>]

SomeStr(t) == [some |-> TRUE, s |-> t]

\* marker = f'class="{class_name}"'
ClassMarker(class_name) == << 99, 108, 97, 115, 115, 61, 34 >> (* class=" *) \o class_name \o << 34 >> (* " *)

SpanOpenTag == << 60, 115, 112, 97, 110 >> (* <span *)

SpanCloseTag == << 60, 47, 115, 112, 97, 110, 62 >> (* </span> *)

\* tag_start = html.rfind("<", 0, idx); content_start = html.find(">", tag_start) + 1
ContentStart(html, idx) == Find(html, << 62 >> (* > *), RFind(html, << 60 >> (* < *), 0, idx)) + 1

\* mutant of DepthAfterOpen: an inner opening tag is not counted
DepthAfterOpen_Flat(depth) == depth

\* depth += 1 on an opening tag met before the next closing tag
DepthAfterOpen(depth) == depth + 1

\* mutant of SpanIter: with no closing tag left, the rest of the markup is
\* returned
SpanIter_RestWithoutClose(html, depth, at) ==
    LET open_next  == Find(html, SpanOpenTag, at)
        close_next == Find(html, SpanCloseTag, at)
    IN  IF close_next = -1
        THEN [next |-> "return", depth |-> 0, pos |-> at, close |-> Len(html)]
        ELSE IF open_next # -1 /\ open_next < close_next
        THEN [next |-> "loop", depth |-> depth + 1, pos |-> open_next + 5, close |-> -1]
        ELSE IF depth - 1 = 0
        THEN [next |-> "return", depth |-> 0, pos |-> at, close |-> close_next]
        ELSE [next |-> "loop", depth |-> depth - 1, pos |-> close_next + 7, close |-> -1]

\* One pass through the body of the while loop, entered at offset `at` (pos) with pos < len(html)
\* and depth > 0.  next = "loop": the loop goes on with (depth, pos);
\* next = "return": html[content_start:close] is returned; next = "break".
SpanIter(html, depth, at) ==
    LET open_next  == Find(html, SpanOpenTag, at)
        close_next == Find(html, SpanCloseTag, at)
    IN  IF close_next = -1
        THEN [next |-> "break", depth |-> depth, pos |-> at, close |-> -1]
        ELSE IF open_next # -1 /\ open_next < close_next
        THEN [next |-> "loop", depth |-> DepthAfterOpen(depth), pos |-> open_next + 5,
              close |-> -1]
        ELSE IF depth - 1 = 0
        THEN [next |-> "return", depth |-> 0, pos |-> at, close |-> close_next]
        ELSE [next |-> "loop", depth |-> depth - 1, pos |-> close_next + 7, close |-> -1]

\* while pos < len(html) and depth > 0
SpanGuard(html, depth, at) == at < Len(html) /\ depth > 0

RECURSIVE SpanLoop(_, _, _, _)
SpanLoop(html, content_start, depth, at) ==
    IF ~SpanGuard(html, depth, at) THEN NoStr
    ELSE LET it == SpanIter(html, depth, at)
         IN  IF it.next = "break" THEN NoStr
             ELSE IF it.next = "return" THEN SomeStr(Slice(html, content_start, it.close))
             ELSE SpanLoop(html, content_start, it.depth, it.pos)

extract_span(html, class_name) ==
    LET idx == Find(html, ClassMarker(class_name), 0)
    IN  IF idx = -1 THEN NoStr
        ELSE SpanLoop(html, ContentStart(html, idx), 1, ContentStart(html, idx))

(***************************************************************************)
(* build_senses_html                                                       *)
(***************************************************************************)
INCLUDE_ALL_AUDIO == FALSE

\* sense_num: None, or the int of the sensenum attribute
NoNum == [some |-> FALSE, n |-> 0]

SomeNum(n) == [some |-> TRUE, n |-> n]

\* str(n) for an int n >= 0
RECURSIVE IntStr(_)
IntStr(n) ==
    LET digit == << 48, 49, 50, 51, 52, 53, 54, 55, 56, 57 >> (* 0123456789 *)
    IN  IF n < 10 THEN << digit[n + 1] >> ELSE IntStr(n \div 10) \o << digit[(n % 10) + 1] >>

\* sep.join(parts)
RECURSIVE Join(_, _)
Join(sep, parts) ==
    IF parts = << >> THEN << >>
    ELSE IF Len(parts) = 1 THEN parts[1]
    ELSE parts[1] \o sep \o Join(sep, Tail(parts))

\* the part appended for the topic of a group
TopicPart(group) ==
    << 60, 100, 105, 118, 32, 99, 108, 97, 115, 115, 61, 34, 116, 111, 112, 105, 99, 34, 62, 60, 115, 112, 97, 110, 32, 99, 108, 97, 115, 115, 61, 34, 116, 111, 112, 105, 99, 45, 101, 110, 34, 62 >> (* <div class="topic"><span class="topic-en"> *) \o group.topic_en
    \o << 60, 47, 115, 112, 97, 110, 62, 60, 115, 112, 97, 110, 32, 99, 108, 97, 115, 115, 61, 34, 116, 111, 112, 105, 99, 45, 122, 104, 34, 62 >> (* </span><span class="topic-zh"> *) \o group.topic_zh
    \o << 60, 47, 115, 112, 97, 110, 62, 60, 47, 100, 105, 118, 62 >> (* </span></div> *)

\* mutant of EmitsSound: every example with audio gets its sound reference
EmitsSound_EveryAudio(ex, first_audio_used) == ex.audio_us # << >> \/ INCLUDE_ALL_AUDIO

\* if (ex["audio_us"] and not first_audio_used) or INCLUDE_ALL_AUDIO
EmitsSound(ex, first_audio_used) ==
    (ex.audio_us # << >> /\ ~first_audio_used) \/ INCLUDE_ALL_AUDIO

\* what one iteration appends to examples_html
ExampleHtml(ex, first_audio_used) ==
    LET ex_zh == IF ex.text_zh # << >>
                 THEN << 60, 115, 112, 97, 110, 32, 99, 108, 97, 115, 115, 61, 34, 101, 120, 45, 122, 104, 34, 62 >> (* <span class="ex-zh"> *) \o ex.text_zh \o << 60, 47, 115, 112, 97, 110, 62 >> (* </span> *)
                 ELSE << >>
        sound_us == IF EmitsSound(ex, first_audio_used)
                    THEN << 91, 115, 111, 117, 110, 100, 58 >> (* [sound: *) \o ex.audio_us \o << 93 >> (* ] *)
                    ELSE << >>
    IN  << 10, 32, 32, 32, 32, 32, 32, 32, 32, 32, 32, 32, 32, 60, 108, 105, 32, 99, 108, 97, 115, 115, 61, 34, 101, 120, 97, 109, 112, 108, 101, 34, 62, 10, 32, 32, 32, 32, 32, 32, 32, 32, 32, 32, 32, 32, 32, 32, 60, 115, 112, 97, 110, 32, 99, 108, 97, 115, 115, 61, 34, 101, 120, 45, 116, 101, 120, 116, 34, 62 >> (* \n            <li class="example">\n              <span class="ex-text"> *)
        \o ex.text
        \o << 60, 47, 115, 112, 97, 110, 62, 10, 32, 32, 32, 32, 32, 32, 32, 32, 32, 32, 32, 32, 32, 32 >> (* </span>\n               *)
        \o ex_zh
        \o << 10, 32, 32, 32, 32, 32, 32, 32, 32, 32, 32, 32, 32, 32, 32, 60, 115, 112, 97, 110, 32, 99, 108, 97, 115, 115, 61, 34, 101, 120, 45, 97, 117, 100, 105, 111, 34, 62 >> (* \n              <span class="ex-audio"> *)
        \o sound_us
        \o << 60, 47, 115, 112, 97, 110, 62, 10, 32, 32, 32, 32, 32, 32, 32, 32, 32, 32, 32, 32, 60, 47, 108, 105, 62 >> (* </span>\n            </li> *)

\* the part appended for a sense, given the examples_html built for it
SensePart(s, examples_html) ==
    LET num == IF s.sense_num.some /\ s.sense_num.n # 0
               THEN << 60, 115, 112, 97, 110, 32, 99, 108, 97, 115, 115, 61, 34, 115, 101, 110, 115, 101, 45, 110, 117, 109, 34, 62 >> (* <span class="sense-num"> *) \o IntStr(s.sense_num.n) \o << 46, 60, 47, 115, 112, 97, 110, 62, 32 >> (* .</span>  *)
               ELSE << >>
        variants == IF s.variants # << >>
                    THEN << 60, 115, 112, 97, 110, 32, 99, 108, 97, 115, 115, 61, 34, 118, 97, 114, 105, 97, 110, 116, 115, 34, 62 >> (* <span class="variants"> *) \o s.variants \o << 60, 47, 115, 112, 97, 110, 62, 32 >> (* </span>  *)
                    ELSE << >>
        gram == IF s.grammar # << >>
                THEN << 60, 115, 112, 97, 110, 32, 99, 108, 97, 115, 115, 61, 34, 103, 114, 97, 109, 109, 97, 114, 34, 62 >> (* <span class="grammar"> *) \o s.grammar \o << 60, 47, 115, 112, 97, 110, 62, 32 >> (* </span>  *)
                ELSE << >>
        labs == IF s.labels # << >>
                THEN << 60, 115, 112, 97, 110, 32, 99, 108, 97, 115, 115, 61, 34, 108, 97, 98, 101, 108, 115, 34, 62 >> (* <span class="labels"> *) \o s.labels \o << 60, 47, 115, 112, 97, 110, 62, 32 >> (* </span>  *)
                ELSE << >>
        defn == << 60, 115, 112, 97, 110, 32, 99, 108, 97, 115, 115, 61, 34, 100, 101, 102, 34, 62 >> (* <span class="def"> *) \o s.definition \o << 60, 47, 115, 112, 97, 110, 62 >> (* </span> *)
        defn_zh == IF s.definition_zh # << >>
                   THEN << 60, 115, 112, 97, 110, 32, 99, 108, 97, 115, 115, 61, 34, 100, 101, 102, 45, 122, 104, 34, 62 >> (* <span class="def-zh"> *) \o s.definition_zh \o << 60, 47, 115, 112, 97, 110, 62 >> (* </span> *)
                   ELSE << >>
        ex_block == IF examples_html # << >>
                    THEN << 60, 117, 108, 32, 99, 108, 97, 115, 115, 61, 34, 101, 120, 97, 109, 112, 108, 101, 115, 34, 62 >> (* <ul class="examples"> *) \o examples_html \o << 60, 47, 117, 108, 62 >> (* </ul> *)
                    ELSE << >>
    IN  << 10, 32, 32, 32, 32, 32, 32, 32, 32, 60, 100, 105, 118, 32, 99, 108, 97, 115, 115, 61, 34, 115, 101, 110, 115, 101, 34, 62, 10, 32, 32, 32, 32, 32, 32, 32, 32, 32, 32, 60, 100, 105, 118, 32, 99, 108, 97, 115, 115, 61, 34, 115, 101, 110, 115, 101, 45, 104, 101, 97, 100, 34, 62 >> (* \n        <div class="sense">\n          <div class="sense-head"> *)
        \o num \o variants \o gram \o labs \o defn \o << 32 >> (*   *) \o defn_zh
        \o << 60, 47, 100, 105, 118, 62, 10, 32, 32, 32, 32, 32, 32, 32, 32, 32, 32 >> (* </div>\n           *)
        \o ex_block
        \o << 10, 32, 32, 32, 32, 32, 32, 32, 32, 60, 47, 100, 105, 118, 62 >> (* \n        </div> *)

(***************************************************************************)
(* The regular expressions of the parser                                   *)
(***************************************************************************)
\* \s of a str pattern
IsSpaceCh(c) == InRanges(c, WhitespaceRanges)

\* the code points \d of a str pattern matches (decimal digits), as <<first, last>>
\* ranges; every range starts at a digit zero and its digits follow in order
DecimalRanges ==
    {
      <<48, 57>>, <<1632, 1641>>, <<1776, 1785>>, <<1984, 1993>>,
      <<2406, 2415>>, <<2534, 2543>>, <<2662, 2671>>, <<2790, 2799>>,
      <<2918, 2927>>, <<3046, 3055>>, <<3174, 3183>>, <<3302, 3311>>,
      <<3430, 3439>>, <<3558, 3567>>, <<3664, 3673>>, <<3792, 3801>>,
      <<3872, 3881>>, <<4160, 4169>>, <<4240, 4249>>, <<6112, 6121>>,
      <<6160, 6169>>, <<6470, 6479>>, <<6608, 6617>>, <<6784, 6793>>,
      <<6800, 6809>>, <<6992, 7001>>, <<7088, 7097>>, <<7232, 7241>>,
      <<7248, 7257>>, <<42528, 42537>>, <<43216, 43225>>, <<43264, 43273>>,
      <<43472, 43481>>, <<43504, 43513>>, <<43600, 43609>>, <<44016, 44025>>,
      <<65296, 65305>>, <<66720, 66729>>, <<68912, 68921>>, <<69734, 69743>>,
      <<69872, 69881>>, <<69942, 69951>>, <<70096, 70105>>, <<70384, 70393>>,
      <<70736, 70745>>, <<70864, 70873>>, <<71248, 71257>>, <<71360, 71369>>,
      <<71472, 71481>>, <<71904, 71913>>, <<72016, 72025>>, <<72784, 72793>>,
      <<73040, 73049>>, <<73120, 73129>>, <<92768, 92777>>, <<92864, 92873>>,
      <<93008, 93017>>, <<120782, 120831>>, <<123200, 123209>>,
      <<123632, 123641>>, <<125264, 125273>>, <<130032, 130041>>
    }

\* \d of a str pattern
IsDigitCh(c) == InRanges(c, DecimalRanges)

\* str.strip()
StrStrip(s) ==
    LET keep == {i \in 1..Len(s) : ~IsSpace(s[i])}
    IN  IF keep = {} THEN << >> ELSE SubSeq(s, SetMin(keep), SetMax(keep))

\* re.sub(r"<[^>]+>", " ", s) from offset i on: a tag is "<", at least one
\* character other than ">", and the first ">" after them
RECURSIVE SubTags(_, _)
SubTags(s, i) ==
    IF i >= Len(s) THEN << >>
    ELSE IF s[i + 1] = 60 /\ i + 1 < Len(s) /\ s[i + 2] # 62 /\ Find(s, << 62 >> (* > *), i + 2) # -1
    THEN << 32 >> (*   *) \o SubTags(s, Find(s, << 62 >> (* > *), i + 2) + 1)
    ELSE << s[i + 1] >> \o SubTags(s, i + 1)

\* re.sub(r"\s+", " ", s) from offset i on
RECURSIVE SubSpaces(_, _)
SubSpaces(s, i) ==
    IF i >= Len(s) THEN << >>
    ELSE IF IsSpaceCh(s[i + 1])
    THEN LET rest == {j \in (i + 1)..Len(s) : j = Len(s) \/ ~IsSpaceCh(s[j + 1])}
         IN  << 32 >> (*   *) \o SubSpaces(s, SetMin(rest))
    ELSE << s[i + 1] >> \o SubSpaces(s, i + 1)

strip_tags(html) == StrStrip(SubSpaces(SubTags(html, 0), 0))

\* the result of re.search: the span of the match and group 1
NoMatch == [found |-> FALSE, start |-> -1, end |-> -1, group |-> << >>]

Match(start, end, group) == [found |-> TRUE, start |-> start, end |-> end, group |-> group]

\* the leftmost of the matches; ms[i] is the match that starts at offset i,
\* or NoMatch
Leftmost(ms) ==
    LET ok == {i \in DOMAIN ms : ms[i].found}
    IN  IF ok = {} THEN NoMatch ELSE ms[SetMin(ok)]

\* the "." of a pattern: any character with re.DOTALL, any but "\n" without
DotRun(s, a, b, dotall) == dotall \/ \A k \in (a + 1)..b : s[k] # 10

\* OPEN(.*?)CLOSE matched at offset i of s
LazyAt(s, open, close, dotall, i) ==
    LET a == i + Len(open)
        c == Find(s, close, a)
    IN  IF OccursAt(s, open, i) /\ c # -1 /\ DotRun(s, a, c, dotall)
        THEN Match(i, c + Len(close), Slice(s, a, c))
        ELSE NoMatch

\* OPEN[^>]*>(.*?)CLOSE matched at offset i of s
TaggedAt(s, open, close, dotall, i) ==
    LET g == Find(s, << 62 >> (* > *), i + Len(open))
        c == Find(s, close, g + 1)
    IN  IF OccursAt(s, open, i) /\ g # -1 /\ c # -1 /\ DotRun(s, g + 1, c, dotall)
        THEN Match(i, c + Len(close), Slice(s, g + 1, c))
        ELSE NoMatch

\* OPEN[^>]*>([^<]+)CLOSE matched at offset i of s
TextTagAt(s, open, close, i) ==
    LET g == Find(s, << 62 >> (* > *), i + Len(open))
        e == Find(s, << 60 >> (* < *), g + 1)
    IN  IF OccursAt(s, open, i) /\ g # -1 /\ e > g + 1 /\ OccursAt(s, close, e)
        THEN Match(i, e + Len(close), Slice(s, g + 1, e))
        ELSE NoMatch

\* the offsets >= from at which the literal `sub` occurs in s
Hits(s, sub, from) == {i \in from..(Len(s) - Len(sub)) : OccursAt(s, sub, i)}

\* re.search of the three shapes, from offset `from` on
LazyMatches(s, open, close, dotall, from) ==
    [i \in Hits(s, open, from) |-> LazyAt(s, open, close, dotall, i)]

TaggedMatches(s, open, close, dotall) ==
    [i \in Hits(s, open, 0) |-> TaggedAt(s, open, close, dotall, i)]

TextTagMatches(s, open, close) ==
    [i \in Hits(s, open, 0) |-> TextTagAt(s, open, close, i)]

\* re.findall: group 1 of the successive matches, each the leftmost that
\* starts at or after the end of the one before
RECURSIVE FindAll(_, _)
FindAll(ms, from) ==
    LET ok == {i \in DOMAIN ms : i >= from /\ ms[i].found}
        m  == ms[SetMin(ok)]
    IN  IF ok = {} THEN << >> ELSE << m.group >> \o FindAll(ms, m.end)

\* re.split on a pattern that matches the empty string at the offsets
\* `cuts`: the pieces between successive cuts, from offset `last` on
RECURSIVE SplitAt(_, _, _)
SplitAt(s, cuts, last) ==
    IF cuts = {} THEN << Slice(s, last, Len(s)) >>
    ELSE LET p == SetMin(cuts)
         IN  << Slice(s, last, p) >> \o SplitAt(s, cuts \ {p}, p)

\* new Audio\("([^"]+)"\) matched at offset i
AudioAt(s, i) ==
    LET open == << 110, 101, 119, 32, 65, 117, 100, 105, 111, 40, 34 >> (* new Audio(" *)
        a == i + Len(open)
        q == Find(s, << 34 >> (* " *), a)
    IN  IF OccursAt(s, open, i) /\ q > a /\ OccursAt(s, << 41 >> (* ) *), q + 1)
        THEN Match(i, q + 2, Slice(s, a, q))
        ELSE NoMatch

\* re.findall(r'new Audio\("([^"]+)"\)', s)
FindAllAudio(s) ==
    FindAll([i \in Hits(s, << 110, 101, 119, 32, 65, 117, 100, 105, 111, 40, 34 >> (* new Audio(" *), 0) |-> AudioAt(s, i)], 0)

\* next((a for a in ... if ...), ""), given the elements that pass the test
FirstWith(passing) == IF passing = << >> THEN << >> ELSE passing[1]

(***************************************************************************)
(* _parse_senses                                                           *)
(***************************************************************************)
SenseMarker == << 99, 108, 97, 115, 115, 61, 34, 115, 101, 110, 115, 101, 34 >> (* class="sense" *)

\* (?=<li\s[^>]*class="sense") matches at offset i
SenseBlockAt(html, i) ==
    /\ OccursAt(html, << 60, 108, 105 >> (* <li *), i)
    /\ i + 3 < Len(html)
    /\ IsSpaceCh(html[i + 4])
    /\ LET g == Find(html, << 62 >> (* > *), i + 4)
       IN  \E j \in Hits(html, SenseMarker, i + 4) : g = -1 \/ j < g

\* re.split(r'(?=<li\s[^>]*class="sense")', html)
SplitSenses(html) ==
    SplitAt(html, {i \in Hits(html, << 60, 108, 105 >> (* <li *), 0) : SenseBlockAt(html, i)}, 0)

\* the value of a decimal digit: its place in its range of DecimalRanges
DigitValue(c) ==
    LET r == CHOOSE r \in DecimalRanges : r[1] <= c /\ c <= r[2]
    IN  (c - r[1]) % 10

\* the number written by decimal digits: the leading zeros add nothing
RECURSIVE IntValue(_)
IntValue(digits) ==
    LET nonzero == {i \in 1..Len(digits) : DigitValue(digits[i]) # 0}
    IN  IF nonzero = {} THEN 0
        ELSE IF SetMin(nonzero) > 1 THEN IntValue(SubSeq(digits, SetMin(nonzero), Len(digits)))
        ELSE 10 * IntValue(SubSeq(digits, 1, Len(digits) - 1)) + DigitValue(digits[Len(digits)])

\* sys.int_info.default_max_str_digits: int() raises ValueError for a string
\* of more digits, leading zeros counted
IntMaxStrDigits == 4300

\* int(digits), for one or more decimal digits: the number, or ValueError
\* raised
IntOf(digits) ==
    IF Len(digits) > IntMaxStrDigits
    THEN [raised |-> TRUE, n |-> 0]
    ELSE [raised |-> FALSE, n |-> IntValue(digits)]

\* sensenum="(\d+)" matched at offset i
SenseNumAt(block, i) ==
    LET open == << 115, 101, 110, 115, 101, 110, 117, 109, 61, 34 >> (* sensenum=" *)
        a == i + Len(open)
        stop == {e \in a..Len(block) : e = Len(block) \/ ~IsDigitCh(block[e + 1])}
        e == SetMin(stop)
    IN  IF OccursAt(block, open, i) /\ e > a /\ OccursAt(block, << 34 >> (* " *), e)
        THEN Match(i, e + 1, Slice(block, a, e))
        ELSE NoMatch

\* m = re.search(r'sensenum="(\d+)"', block); int(m.group(1)) if m else None:
\* sense_num, or the ValueError of int() raised
SenseNumOf(block) ==
    LET m == Leftmost([i \in Hits(block, << 115, 101, 110, 115, 101, 110, 117, 109, 61, 34 >> (* sensenum=" *), 0) |-> SenseNumAt(block, i)])
    IN  IF ~m.found THEN [raised |-> FALSE, sense_num |-> NoNum]
        ELSE IF IntOf(m.group).raised THEN [raised |-> TRUE, sense_num |-> NoNum]
        ELSE [raised |-> FALSE, sense_num |-> SomeNum(IntOf(m.group).n)]

\* strip_tags(m.group(1)) if m else ""
StrippedGroup(m) == IF m.found THEN strip_tags(m.group) ELSE << >>

\* def_inner = extract_span(block, "def");
\* definition = strip_tags(def_inner) if def_inner else ""
StrippedSpan(def_inner) ==
    IF def_inner.some /\ def_inner.s # << >> THEN strip_tags(def_inner.s) ELSE << >>

DefinitionOf(block) == StrippedSpan(extract_span(block, << 100, 101, 102 >> (* def *)))

\* <deft>.*?<chn>(.*?)</chn>.*?</deft> matched at offset i (re.DOTALL)
DeftAt(block, i) ==
    LET a == Find(block, << 60, 99, 104, 110, 62 >> (* <chn> *), i + 6)
        b == Find(block, << 60, 47, 99, 104, 110, 62 >> (* </chn> *), a + 5)
        c == Find(block, << 60, 47, 100, 101, 102, 116, 62 >> (* </deft> *), b + 6)
    IN  IF OccursAt(block, << 60, 100, 101, 102, 116, 62 >> (* <deft> *), i) /\ a # -1 /\ b # -1 /\ c # -1
        THEN Match(i, c + 7, Slice(block, a + 5, b))
        ELSE NoMatch

\* <span class="x">(.*?)</span>(.*?)</li> matched at offset i (re.DOTALL);
\* the group is the pair (ex_text_html, ex_tail)
ExampleAt(block, i) ==
    LET open == << 60, 115, 112, 97, 110, 32, 99, 108, 97, 115, 115, 61, 34, 120, 34, 62 >> (* <span class="x"> *)
        a == i + Len(open)
        b == Find(block, << 60, 47, 115, 112, 97, 110, 62 >> (* </span> *), a)
        c == Find(block, << 60, 47, 108, 105, 62 >> (* </li> *), b + 7)
    IN  IF OccursAt(block, open, i) /\ b # -1 /\ c # -1
        THEN Match(i, c + 5, << Slice(block, a, b), Slice(block, b + 7, c) >>)
        ELSE NoMatch

\* the dict appended for one (ex_text_html, ex_tail); text = "" when skipped
ExampleOf(pair) ==
    [text     |-> strip_tags(pair[1]),
     text_zh  |-> StrippedGroup(Leftmost(LazyMatches(pair[2], << 60, 99, 104, 110, 62 >> (* <chn> *), << 60, 47, 99, 104, 110, 62 >> (* </chn> *), TRUE, 0))),
     audio_us |-> FirstWith(SelectSeq(FindAllAudio(pair[2]),
                                      LAMBDA a : \/ Contains(a, << 95, 117, 115, 115, 95 >> (* _uss_ *))
                                                 \/ Contains(a, << 95, 97, 109, 115, 95 >> (* _ams_ *))))]

\* examples of a block: those whose text is not empty
ExamplesOfBlock(block) ==
    LET found == FindAll([i \in Hits(block, << 60, 115, 112, 97, 110, 32, 99, 108, 97, 115, 115, 61, 34, 120, 34, 62 >> (* <span class="x"> *), 0) |-> ExampleAt(block, i)], 0)
    IN  SelectSeq([k \in 1..Len(found) |-> ExampleOf(found[k])], LAMBDA ex : ex.text # << >>)

\* the dict of one block that passed the two tests
SenseOf(block) ==
    [sense_num     |-> SenseNumOf(block).sense_num,
     grammar       |-> StrippedGroup(Leftmost(TaggedMatches(block, << 60, 115, 112, 97, 110, 32, 99, 108, 97, 115, 115, 61, 34, 103, 114, 97, 109, 109, 97, 114, 34 >> (* <span class="grammar" *), << 60, 47, 115, 112, 97, 110, 62 >> (* </span> *), TRUE))),
     labels        |-> LET labels == FindAll(TaggedMatches(block, << 60, 115, 112, 97, 110, 32, 99, 108, 97, 115, 115, 61, 34, 108, 97, 98, 101, 108, 115, 34 >> (* <span class="labels" *), << 60, 47, 115, 112, 97, 110, 62 >> (* </span> *), TRUE), 0)
                       IN  Join(<< 32 >> (*   *), [k \in 1..Len(labels) |-> strip_tags(labels[k])]),
     variants      |-> StrippedGroup(Leftmost(TaggedMatches(block, << 60, 100, 105, 118, 32, 99, 108, 97, 115, 115, 61, 34, 118, 97, 114, 105, 97, 110, 116, 115, 34 >> (* <div class="variants" *), << 60, 47, 100, 105, 118, 62 >> (* </div> *), TRUE))),
     definition    |-> DefinitionOf(block),
     definition_zh |-> StrippedGroup(Leftmost([i \in Hits(block, << 60, 100, 101, 102, 116, 62 >> (* <deft> *), 0) |-> DeftAt(block, i)])),
     examples      |-> ExamplesOfBlock(block)]

\* mutant of KeepsSense: a block without a definition is kept
KeepsSense_AnyBlock(block) == Contains(block, SenseMarker)

\* the two `continue` tests of the loop: the block holds class="sense" and
\* its definition is not empty
KeepsSense(block) == Contains(block, SenseMarker) /\ DefinitionOf(block) # << >>

\* the first `continue` test: the blocks that get to line 117
HasSenseMarker(block) == Contains(block, SenseMarker)

\* the senses returned, or the ValueError of line 118 raised: every block
\* that holds class="sense" has its sensenum converted, before its
\* definition is looked at
_parse_senses(html) ==
    LET entered == SelectSeq(SplitSenses(html), HasSenseMarker)
        blocks == SelectSeq(entered, KeepsSense)
    IN  IF \E k \in 1..Len(entered) : SenseNumOf(entered[k]).raised
        THEN [raised |-> TRUE, senses |-> << >>]
        ELSE [raised |-> FALSE, senses |-> [k \in 1..Len(blocks) |-> SenseOf(blocks[k])]]

\* what the call adds to media_files
SensesMedia(senses) ==
    UNION {{senses[k].examples[e].audio_us : e \in 1..Len(senses[k].examples)} :
             k \in 1..Len(senses)} \ {<< >>}

(***************************************************************************)
(* _parse_verb_forms                                                       *)
(***************************************************************************)
\* the code points \w of a str pattern matches (alphanumeric, or "_"), as
\* <<first, last>> ranges
WordRanges ==
    {
      <<48, 57>>, <<65, 90>>, <<95, 95>>, <<97, 122>>, <<170, 170>>,
      <<178, 179>>, <<181, 181>>, <<185, 186>>, <<188, 190>>, <<192, 214>>,
      <<216, 246>>, <<248, 705>>, <<710, 721>>, <<736, 740>>, <<748, 748>>,
      <<750, 750>>, <<880, 884>>, <<886, 887>>, <<890, 893>>, <<895, 895>>,
      <<902, 902>>, <<904, 906>>, <<908, 908>>, <<910, 929>>, <<931, 1013>>,
      <<1015, 1153>>, <<1162, 1327>>, <<1329, 1366>>, <<1369, 1369>>,
      <<1376, 1416>>, <<1488, 1514>>, <<1519, 1522>>, <<1568, 1610>>,
      <<1632, 1641>>, <<1646, 1647>>, <<1649, 1747>>, <<1749, 1749>>,
      <<1765, 1766>>, <<1774, 1788>>, <<1791, 1791>>, <<1808, 1808>>,
      <<1810, 1839>>, <<1869, 1957>>, <<1969, 1969>>, <<1984, 2026>>,
      <<2036, 2037>>, <<2042, 2042>>, <<2048, 2069>>, <<2074, 2074>>,
      <<2084, 2084>>, <<2088, 2088>>, <<2112, 2136>>, <<2144, 2154>>,
      <<2160, 2183>>, <<2185, 2190>>, <<2208, 2249>>, <<2308, 2361>>,
      <<2365, 2365>>, <<2384, 2384>>, <<2392, 2401>>, <<2406, 2415>>,
      <<2417, 2432>>, <<2437, 2444>>, <<2447, 2448>>, <<2451, 2472>>,
      <<2474, 2480>>, <<2482, 2482>>, <<2486, 2489>>, <<2493, 2493>>,
      <<2510, 2510>>, <<2524, 2525>>, <<2527, 2529>>, <<2534, 2545>>,
      <<2548, 2553>>, <<2556, 2556>>, <<2565, 2570>>, <<2575, 2576>>,
      <<2579, 2600>>, <<2602, 2608>>, <<2610, 2611>>, <<2613, 2614>>,
      <<2616, 2617>>, <<2649, 2652>>, <<2654, 2654>>, <<2662, 2671>>,
      <<2674, 2676>>, <<2693, 2701>>, <<2703, 2705>>, <<2707, 2728>>,
      <<2730, 2736>>, <<2738, 2739>>, <<2741, 2745>>, <<2749, 2749>>,
      <<2768, 2768>>, <<2784, 2785>>, <<2790, 2799>>, <<2809, 2809>>,
      <<2821, 2828>>, <<2831, 2832>>, <<2835, 2856>>, <<2858, 2864>>,
      <<2866, 2867>>, <<2869, 2873>>, <<2877, 2877>>, <<2908, 2909>>,
      <<2911, 2913>>, <<2918, 2927>>, <<2929, 2935>>, <<2947, 2947>>,
      <<2949, 2954>>, <<2958, 2960>>, <<2962, 2965>>, <<2969, 2970>>,
      <<2972, 2972>>, <<2974, 2975>>, <<2979, 2980>>, <<2984, 2986>>,
      <<2990, 3001>>, <<3024, 3024>>, <<3046, 3058>>, <<3077, 3084>>,
      <<3086, 3088>>, <<3090, 3112>>, <<3114, 3129>>, <<3133, 3133>>,
      <<3160, 3162>>, <<3165, 3165>>, <<3168, 3169>>, <<3174, 3183>>,
      <<3192, 3198>>, <<3200, 3200>>, <<3205, 3212>>, <<3214, 3216>>,
      <<3218, 3240>>, <<3242, 3251>>, <<3253, 3257>>, <<3261, 3261>>,
      <<3293, 3294>>, <<3296, 3297>>, <<3302, 3311>>, <<3313, 3314>>,
      <<3332, 3340>>, <<3342, 3344>>, <<3346, 3386>>, <<3389, 3389>>,
      <<3406, 3406>>, <<3412, 3414>>, <<3416, 3425>>, <<3430, 3448>>,
      <<3450, 3455>>, <<3461, 3478>>, <<3482, 3505>>, <<3507, 3515>>,
      <<3517, 3517>>, <<3520, 3526>>, <<3558, 3567>>, <<3585, 3632>>,
      <<3634, 3635>>, <<3648, 3654>>, <<3664, 3673>>, <<3713, 3714>>,
      <<3716, 3716>>, <<3718, 3722>>, <<3724, 3747>>, <<3749, 3749>>,
      <<3751, 3760>>, <<3762, 3763>>, <<3773, 3773>>, <<3776, 3780>>,
      <<3782, 3782>>, <<3792, 3801>>, <<3804, 3807>>, <<3840, 3840>>,
      <<3872, 3891>>, <<3904, 3911>>, <<3913, 3948>>, <<3976, 3980>>,
      <<4096, 4138>>, <<4159, 4169>>, <<4176, 4181>>, <<4186, 4189>>,
      <<4193, 4193>>, <<4197, 4198>>, <<4206, 4208>>, <<4213, 4225>>,
      <<4238, 4238>>, <<4240, 4249>>, <<4256, 4293>>, <<4295, 4295>>,
      <<4301, 4301>>, <<4304, 4346>>, <<4348, 4680>>, <<4682, 4685>>,
      <<4688, 4694>>, <<4696, 4696>>, <<4698, 4701>>, <<4704, 4744>>,
      <<4746, 4749>>, <<4752, 4784>>, <<4786, 4789>>, <<4792, 4798>>,
      <<4800, 4800>>, <<4802, 4805>>, <<4808, 4822>>, <<4824, 4880>>,
      <<4882, 4885>>, <<4888, 4954>>, <<4969, 4988>>, <<4992, 5007>>,
      <<5024, 5109>>, <<5112, 5117>>, <<5121, 5740>>, <<5743, 5759>>,
      <<5761, 5786>>, <<5792, 5866>>, <<5870, 5880>>, <<5888, 5905>>,
      <<5919, 5937>>, <<5952, 5969>>, <<5984, 5996>>, <<5998, 6000>>,
      <<6016, 6067>>, <<6103, 6103>>, <<6108, 6108>>, <<6112, 6121>>,
      <<6128, 6137>>, <<6160, 6169>>, <<6176, 6264>>, <<6272, 6276>>,
      <<6279, 6312>>, <<6314, 6314>>, <<6320, 6389>>, <<6400, 6430>>,
      <<6470, 6509>>, <<6512, 6516>>, <<6528, 6571>>, <<6576, 6601>>,
      <<6608, 6618>>, <<6656, 6678>>, <<6688, 6740>>, <<6784, 6793>>,
      <<6800, 6809>>, <<6823, 6823>>, <<6917, 6963>>, <<6981, 6988>>,
      <<6992, 7001>>, <<7043, 7072>>, <<7086, 7141>>, <<7168, 7203>>,
      <<7232, 7241>>, <<7245, 7293>>, <<7296, 7304>>, <<7312, 7354>>,
      <<7357, 7359>>, <<7401, 7404>>, <<7406, 7411>>, <<7413, 7414>>,
      <<7418, 7418>>, <<7424, 7615>>, <<7680, 7957>>, <<7960, 7965>>,
      <<7968, 8005>>, <<8008, 8013>>, <<8016, 8023>>, <<8025, 8025>>,
      <<8027, 8027>>, <<8029, 8029>>, <<8031, 8061>>, <<8064, 8116>>,
      <<8118, 8124>>, <<8126, 8126>>, <<8130, 8132>>, <<8134, 8140>>,
      <<8144, 8147>>, <<8150, 8155>>, <<8160, 8172>>, <<8178, 8180>>,
      <<8182, 8188>>, <<8304, 8305>>, <<8308, 8313>>, <<8319, 8329>>,
      <<8336, 8348>>, <<8450, 8450>>, <<8455, 8455>>, <<8458, 8467>>,
      <<8469, 8469>>, <<8473, 8477>>, <<8484, 8484>>, <<8486, 8486>>,
      <<8488, 8488>>, <<8490, 8493>>, <<8495, 8505>>, <<8508, 8511>>,
      <<8517, 8521>>, <<8526, 8526>>, <<8528, 8585>>, <<9312, 9371>>,
      <<9450, 9471>>, <<10102, 10131>>, <<11264, 11492>>, <<11499, 11502>>,
      <<11506, 11507>>, <<11517, 11517>>, <<11520, 11557>>, <<11559, 11559>>,
      <<11565, 11565>>, <<11568, 11623>>, <<11631, 11631>>, <<11648, 11670>>,
      <<11680, 11686>>, <<11688, 11694>>, <<11696, 11702>>, <<11704, 11710>>,
      <<11712, 11718>>, <<11720, 11726>>, <<11728, 11734>>, <<11736, 11742>>,
      <<11823, 11823>>, <<12293, 12295>>, <<12321, 12329>>, <<12337, 12341>>,
      <<12344, 12348>>, <<12353, 12438>>, <<12445, 12447>>, <<12449, 12538>>,
      <<12540, 12543>>, <<12549, 12591>>, <<12593, 12686>>, <<12690, 12693>>,
      <<12704, 12735>>, <<12784, 12799>>, <<12832, 12841>>, <<12872, 12879>>,
      <<12881, 12895>>, <<12928, 12937>>, <<12977, 12991>>, <<13312, 19903>>,
      <<19968, 42124>>, <<42192, 42237>>, <<42240, 42508>>, <<42512, 42539>>,
      <<42560, 42606>>, <<42623, 42653>>, <<42656, 42735>>, <<42775, 42783>>,
      <<42786, 42888>>, <<42891, 42954>>, <<42960, 42961>>, <<42963, 42963>>,
      <<42965, 42969>>, <<42994, 43009>>, <<43011, 43013>>, <<43015, 43018>>,
      <<43020, 43042>>, <<43056, 43061>>, <<43072, 43123>>, <<43138, 43187>>,
      <<43216, 43225>>, <<43250, 43255>>, <<43259, 43259>>, <<43261, 43262>>,
      <<43264, 43301>>, <<43312, 43334>>, <<43360, 43388>>, <<43396, 43442>>,
      <<43471, 43481>>, <<43488, 43492>>, <<43494, 43518>>, <<43520, 43560>>,
      <<43584, 43586>>, <<43588, 43595>>, <<43600, 43609>>, <<43616, 43638>>,
      <<43642, 43642>>, <<43646, 43695>>, <<43697, 43697>>, <<43701, 43702>>,
      <<43705, 43709>>, <<43712, 43712>>, <<43714, 43714>>, <<43739, 43741>>,
      <<43744, 43754>>, <<43762, 43764>>, <<43777, 43782>>, <<43785, 43790>>,
      <<43793, 43798>>, <<43808, 43814>>, <<43816, 43822>>, <<43824, 43866>>,
      <<43868, 43881>>, <<43888, 44002>>, <<44016, 44025>>, <<44032, 55203>>,
      <<55216, 55238>>, <<55243, 55291>>, <<63744, 64109>>, <<64112, 64217>>,
      <<64256, 64262>>, <<64275, 64279>>, <<64285, 64285>>, <<64287, 64296>>,
      <<64298, 64310>>, <<64312, 64316>>, <<64318, 64318>>, <<64320, 64321>>,
      <<64323, 64324>>, <<64326, 64433>>, <<64467, 64829>>, <<64848, 64911>>,
      <<64914, 64967>>, <<65008, 65019>>, <<65136, 65140>>, <<65142, 65276>>,
      <<65296, 65305>>, <<65313, 65338>>, <<65345, 65370>>, <<65382, 65470>>,
      <<65474, 65479>>, <<65482, 65487>>, <<65490, 65495>>, <<65498, 65500>>,
      <<65536, 65547>>, <<65549, 65574>>, <<65576, 65594>>, <<65596, 65597>>,
      <<65599, 65613>>, <<65616, 65629>>, <<65664, 65786>>, <<65799, 65843>>,
      <<65856, 65912>>, <<65930, 65931>>, <<66176, 66204>>, <<66208, 66256>>,
      <<66273, 66299>>, <<66304, 66339>>, <<66349, 66378>>, <<66384, 66421>>,
      <<66432, 66461>>, <<66464, 66499>>, <<66504, 66511>>, <<66513, 66517>>,
      <<66560, 66717>>, <<66720, 66729>>, <<66736, 66771>>, <<66776, 66811>>,
      <<66816, 66855>>, <<66864, 66915>>, <<66928, 66938>>, <<66940, 66954>>,
      <<66956, 66962>>, <<66964, 66965>>, <<66967, 66977>>, <<66979, 66993>>,
      <<66995, 67001>>, <<67003, 67004>>, <<67072, 67382>>, <<67392, 67413>>,
      <<67424, 67431>>, <<67456, 67461>>, <<67463, 67504>>, <<67506, 67514>>,
      <<67584, 67589>>, <<67592, 67592>>, <<67594, 67637>>, <<67639, 67640>>,
      <<67644, 67644>>, <<67647, 67669>>, <<67672, 67702>>, <<67705, 67742>>,
      <<67751, 67759>>, <<67808, 67826>>, <<67828, 67829>>, <<67835, 67867>>,
      <<67872, 67897>>, <<67968, 68023>>, <<68028, 68047>>, <<68050, 68096>>,
      <<68112, 68115>>, <<68117, 68119>>, <<68121, 68149>>, <<68160, 68168>>,
      <<68192, 68222>>, <<68224, 68255>>, <<68288, 68295>>, <<68297, 68324>>,
      <<68331, 68335>>, <<68352, 68405>>, <<68416, 68437>>, <<68440, 68466>>,
      <<68472, 68497>>, <<68521, 68527>>, <<68608, 68680>>, <<68736, 68786>>,
      <<68800, 68850>>, <<68858, 68899>>, <<68912, 68921>>, <<69216, 69246>>,
      <<69248, 69289>>, <<69296, 69297>>, <<69376, 69415>>, <<69424, 69445>>,
      <<69457, 69460>>, <<69488, 69505>>, <<69552, 69579>>, <<69600, 69622>>,
      <<69635, 69687>>, <<69714, 69743>>, <<69745, 69746>>, <<69749, 69749>>,
      <<69763, 69807>>, <<69840, 69864>>, <<69872, 69881>>, <<69891, 69926>>,
      <<69942, 69951>>, <<69956, 69956>>, <<69959, 69959>>, <<69968, 70002>>,
      <<70006, 70006>>, <<70019, 70066>>, <<70081, 70084>>, <<70096, 70106>>,
      <<70108, 70108>>, <<70113, 70132>>, <<70144, 70161>>, <<70163, 70187>>,
      <<70272, 70278>>, <<70280, 70280>>, <<70282, 70285>>, <<70287, 70301>>,
      <<70303, 70312>>, <<70320, 70366>>, <<70384, 70393>>, <<70405, 70412>>,
      <<70415, 70416>>, <<70419, 70440>>, <<70442, 70448>>, <<70450, 70451>>,
      <<70453, 70457>>, <<70461, 70461>>, <<70480, 70480>>, <<70493, 70497>>,
      <<70656, 70708>>, <<70727, 70730>>, <<70736, 70745>>, <<70751, 70753>>,
      <<70784, 70831>>, <<70852, 70853>>, <<70855, 70855>>, <<70864, 70873>>,
      <<71040, 71086>>, <<71128, 71131>>, <<71168, 71215>>, <<71236, 71236>>,
      <<71248, 71257>>, <<71296, 71338>>, <<71352, 71352>>, <<71360, 71369>>,
      <<71424, 71450>>, <<71472, 71483>>, <<71488, 71494>>, <<71680, 71723>>,
      <<71840, 71922>>, <<71935, 71942>>, <<71945, 71945>>, <<71948, 71955>>,
      <<71957, 71958>>, <<71960, 71983>>, <<71999, 71999>>, <<72001, 72001>>,
      <<72016, 72025>>, <<72096, 72103>>, <<72106, 72144>>, <<72161, 72161>>,
      <<72163, 72163>>, <<72192, 72192>>, <<72203, 72242>>, <<72250, 72250>>,
      <<72272, 72272>>, <<72284, 72329>>, <<72349, 72349>>, <<72368, 72440>>,
      <<72704, 72712>>, <<72714, 72750>>, <<72768, 72768>>, <<72784, 72812>>,
      <<72818, 72847>>, <<72960, 72966>>, <<72968, 72969>>, <<72971, 73008>>,
      <<73030, 73030>>, <<73040, 73049>>, <<73056, 73061>>, <<73063, 73064>>,
      <<73066, 73097>>, <<73112, 73112>>, <<73120, 73129>>, <<73440, 73458>>,
      <<73648, 73648>>, <<73664, 73684>>, <<73728, 74649>>, <<74752, 74862>>,
      <<74880, 75075>>, <<77712, 77808>>, <<77824, 78894>>, <<82944, 83526>>,
      <<92160, 92728>>, <<92736, 92766>>, <<92768, 92777>>, <<92784, 92862>>,
      <<92864, 92873>>, <<92880, 92909>>, <<92928, 92975>>, <<92992, 92995>>,
      <<93008, 93017>>, <<93019, 93025>>, <<93027, 93047>>, <<93053, 93071>>,
      <<93760, 93846>>, <<93952, 94026>>, <<94032, 94032>>, <<94099, 94111>>,
      <<94176, 94177>>, <<94179, 94179>>, <<94208, 100343>>, <<100352, 101589>>,
      <<101632, 101640>>, <<110576, 110579>>, <<110581, 110587>>,
      <<110589, 110590>>, <<110592, 110882>>, <<110928, 110930>>,
      <<110948, 110951>>, <<110960, 111355>>, <<113664, 113770>>,
      <<113776, 113788>>, <<113792, 113800>>, <<113808, 113817>>,
      <<119520, 119539>>, <<119648, 119672>>, <<119808, 119892>>,
      <<119894, 119964>>, <<119966, 119967>>, <<119970, 119970>>,
      <<119973, 119974>>, <<119977, 119980>>, <<119982, 119993>>,
      <<119995, 119995>>, <<119997, 120003>>, <<120005, 120069>>,
      <<120071, 120074>>, <<120077, 120084>>, <<120086, 120092>>,
      <<120094, 120121>>, <<120123, 120126>>, <<120128, 120132>>,
      <<120134, 120134>>, <<120138, 120144>>, <<120146, 120485>>,
      <<120488, 120512>>, <<120514, 120538>>, <<120540, 120570>>,
      <<120572, 120596>>, <<120598, 120628>>, <<120630, 120654>>,
      <<120656, 120686>>, <<120688, 120712>>, <<120714, 120744>>,
      <<120746, 120770>>, <<120772, 120779>>, <<120782, 120831>>,
      <<122624, 122654>>, <<123136, 123180>>, <<123191, 123197>>,
      <<123200, 123209>>, <<123214, 123214>>, <<123536, 123565>>,
      <<123584, 123627>>, <<123632, 123641>>, <<124896, 124902>>,
      <<124904, 124907>>, <<124909, 124910>>, <<124912, 124926>>,
      <<124928, 125124>>, <<125127, 125135>>, <<125184, 125251>>,
      <<125259, 125259>>, <<125264, 125273>>, <<126065, 126123>>,
      <<126125, 126127>>, <<126129, 126132>>, <<126209, 126253>>,
      <<126255, 126269>>, <<126464, 126467>>, <<126469, 126495>>,
      <<126497, 126498>>, <<126500, 126500>>, <<126503, 126503>>,
      <<126505, 126514>>, <<126516, 126519>>, <<126521, 126521>>,
      <<126523, 126523>>, <<126530, 126530>>, <<126535, 126535>>,
      <<126537, 126537>>, <<126539, 126539>>, <<126541, 126543>>,
      <<126545, 126546>>, <<126548, 126548>>, <<126551, 126551>>,
      <<126553, 126553>>, <<126555, 126555>>, <<126557, 126557>>,
      <<126559, 126559>>, <<126561, 126562>>, <<126564, 126564>>,
      <<126567, 126570>>, <<126572, 126578>>, <<126580, 126583>>,
      <<126585, 126588>>, <<126590, 126590>>, <<126592, 126601>>,
      <<126603, 126619>>, <<126625, 126627>>, <<126629, 126633>>,
      <<126635, 126651>>, <<127232, 127244>>, <<130032, 130041>>,
      <<131072, 173791>>, <<173824, 177976>>, <<177984, 178205>>,
      <<178208, 183969>>, <<183984, 191456>>, <<194560, 195101>>,
      <<196608, 201546>>
    }

\* \w of a str pattern
IsWordCh(c) == InRanges(c, WordRanges)

\* \b at offset i of s: exactly one of the characters around it is a word
\* character
WordBoundary(s, i) ==
    LET before == i >= 1 /\ i <= Len(s) /\ IsWordCh(s[i])
        after  == i >= 0 /\ i < Len(s) /\ IsWordCh(s[i + 1])
    IN  before # after

\* <tr\b[^>]*\bform="([^"]+)"[^>]*>(.*?)</tr> matched at offset i (re.DOTALL),
\* with the attribute at offset j; the group is the pair (form_attr, content)
VerbRowWith(block, i, j) ==
    LET a == j + 6
        q == Find(block, << 34 >> (* " *), a)
        g == Find(block, << 62 >> (* > *), q + 1)
        c == Find(block, << 60, 47, 116, 114, 62 >> (* </tr> *), g + 1)
    IN  IF q > a /\ g # -1 /\ c # -1
        THEN Match(i, c + 5, << Slice(block, a, q), Slice(block, g + 1, c) >>)
        ELSE NoMatch

\* the same at offset i: [^>]* is greedy, so of the attributes inside the
\* tag the last one that lets the rest match is taken
VerbRowAt(block, i) ==
    LET g0 == Find(block, << 62 >> (* > *), i + 3)
        at == {j \in Hits(block, << 102, 111, 114, 109, 61, 34 >> (* form=" *), i + 3) :
                 /\ g0 = -1 \/ j < g0
                 /\ WordBoundary(block, j)
                 /\ VerbRowWith(block, i, j).found}
    IN  IF OccursAt(block, << 60, 116, 114 >> (* <tr *), i) /\ WordBoundary(block, i + 3) /\ at # {}
        THEN VerbRowWith(block, i, SetMax(at))
        ELSE NoMatch

\* <td\b[^>]*\bclass="verb_form"[^>]*>(.*?)</td> matched at offset i (re.DOTALL)
VerbCellAt(content, i) ==
    LET g == Find(content, << 62 >> (* > *), i + 3)
        c == Find(content, << 60, 47, 116, 100, 62 >> (* </td> *), g + 1)
    IN  IF /\ OccursAt(content, << 60, 116, 100 >> (* <td *), i)
           /\ WordBoundary(content, i + 3)
           /\ g # -1
           /\ \E j \in Hits(content, << 99, 108, 97, 115, 115, 61, 34, 118, 101, 114, 98, 95, 102, 111, 114, 109, 34 >> (* class="verb_form" *), i + 3) :
                  j < g /\ WordBoundary(content, j)
           /\ c # -1
        THEN Match(i, c + 5, Slice(content, g + 1, c))
        ELSE NoMatch

\* class="phons_n_am".*?new Audio\("([^"]+)"\) matched at offset i (re.DOTALL)
VerbAudioAt(content, i) ==
    LET open == << 99, 108, 97, 115, 115, 61, 34, 112, 104, 111, 110, 115, 95, 110, 95, 97, 109, 34 >> (* class="phons_n_am" *)
        m == Leftmost([k \in Hits(content, << 110, 101, 119, 32, 65, 117, 100, 105, 111, 40, 34 >> (* new Audio(" *), i + Len(open)) |-> AudioAt(content, k)])
    IN  IF OccursAt(content, open, i) /\ m.found
        THEN Match(i, m.end, m.group)
        ELSE NoMatch

\* the dict of one row; label_word = "" when the row is skipped
VerbFormOf(pair) ==
    LET content == pair[2]
        td == Leftmost([i \in Hits(content, << 60, 116, 100 >> (* <td *), 0) |-> VerbCellAt(content, i)])
        m == Leftmost([i \in Hits(content, << 99, 108, 97, 115, 115, 61, 34, 112, 104, 111, 110, 115, 95, 110, 95, 97, 109, 34 >> (* class="phons_n_am" *), 0) |-> VerbAudioAt(content, i)])
    IN  [label_word |-> StrippedGroup(td),
         audio_us   |-> IF m.found THEN m.group ELSE << >>]

\* the rows of the block, skipped ones included
VerbRows(block) ==
    LET found == FindAll([i \in Hits(block, << 60, 116, 114 >> (* <tr *), 0) |-> VerbRowAt(block, i)], 0)
    IN  [k \in 1..Len(found) |-> VerbFormOf(found[k])]

_parse_verb_forms(block) ==
    SelectSeq(VerbRows(block), LAMBDA row : row.label_word # << >>)

\* what the call adds to media_files: the audio of every row, kept or not
VerbFormsMedia(rows) == {rows[k].audio_us : k \in 1..Len(rows)} \ {<< >>}

(***************************************************************************)
(* _parse_pos_block, _parse_idioms, parse_entry                            *)
(***************************************************************************)
\* the dict appended to groups
Group(topic_en, topic_zh, senses) ==
    [topic_en |-> topic_en, topic_zh |-> topic_zh, senses |-> senses]

\* <h1\s[^>]*class="headword"[^>]*>([^<]+)</h1> matched at offset i
HeadwordAt(block, i) ==
    LET g == Find(block, << 62 >> (* > *), i + 4)
        e == Find(block, << 60 >> (* < *), g + 1)
    IN  IF /\ OccursAt(block, << 60, 104, 49 >> (* <h1 *), i)
           /\ i + 3 < Len(block)
           /\ IsSpaceCh(block[i + 4])
           /\ g # -1
           /\ \E j \in Hits(block, << 99, 108, 97, 115, 115, 61, 34, 104, 101, 97, 100, 119, 111, 114, 100, 34 >> (* class="headword" *), i + 4) : j < g
           /\ e > g + 1
           /\ OccursAt(block, << 60, 47, 104, 49, 62 >> (* </h1> *), e)
        THEN Match(i, e + 5, Slice(block, g + 1, e))
        ELSE NoMatch

\* MARK[^>]*>.*?<span class="phon">([^<]+)</span> matched at offset i (re.DOTALL)
PhonAt(block, mark, i) ==
    LET g == Find(block, << 62 >> (* > *), i + Len(mark))
        open == << 60, 115, 112, 97, 110, 32, 99, 108, 97, 115, 115, 61, 34, 112, 104, 111, 110, 34, 62 >> (* <span class="phon"> *)
        ms == [k \in Hits(block, open, g + 1) |->
                 LET e == Find(block, << 60 >> (* < *), k + Len(open))
                 IN  IF e > k + Len(open) /\ OccursAt(block, << 60, 47, 115, 112, 97, 110, 62 >> (* </span> *), e)
                     THEN Match(i, e + 7, Slice(block, k + Len(open), e))
                     ELSE NoMatch]
    IN  IF OccursAt(block, mark, i) /\ g # -1
        THEN Leftmost(ms)
        ELSE NoMatch

\* m.group(1).strip() if m else ""
StrippedText(m) == IF m.found THEN StrStrip(m.group) ELSE << >>

PhonOf(block, mark) ==
    StrippedText(Leftmost([i \in Hits(block, mark, 0) |-> PhonAt(block, mark, i)]))

\* min((block.find(t) for t in marks if block.find(t) != -1), default=default)
FirstOf(block, marks, default) ==
    LET found == {Find(block, t, 0) : t \in marks} \ {-1}
    IN  IF found = {} THEN default ELSE SetMin(found)

\* re.match(r"[^_].*__gb_", a), with the given region mark
IsRegionAudio(a, mark) ==
    /\ Len(a) >= 1
    /\ a[1] # 95
    /\ \E j \in Hits(a, mark, 1) : DotRun(a, 1, j, FALSE)

\* audio_gb, audio_us: the first region audio of the section before the senses
HeadAudio(block, mark) ==
    LET sense_start == FirstOf(block, { << 60, 111, 108, 32, 99, 108, 97, 115, 115, 61, 34, 115, 101, 110, 115, 101 >> (* <ol class="sense *), << 60, 108, 105, 32, 99, 108, 97, 115, 115, 61, 34, 115, 101, 110, 115, 101 >> (* <li class="sense *) }, 2000)
        phon_section == Slice(block, 0, sense_start)
    IN  FirstWith(SelectSeq(FindAllAudio(phon_section), LAMBDA a : IsRegionAudio(a, mark)))

ShcutMark == << 60, 115, 112, 97, 110, 32, 99, 108, 97, 115, 115, 61, 34, 115, 104, 99, 117, 116, 45, 103, 34 >> (* <span class="shcut-g" *)

IdmMark == << 60, 115, 112, 97, 110, 32, 99, 108, 97, 115, 115, 61, 34, 105, 100, 109, 45, 103, 34 >> (* <span class="idm-g" *)

\* "$" matches at offset j of s
AtEnd(s, j) == j = Len(s) \/ (j = Len(s) - 1 /\ s[Len(s)] = 10)

\* MARK.*?(?=STOP1|STOP2|$) matched at offset i (re.DOTALL), for the stop
\* marks given; the group is the whole match
SectionAt(block, mark, stops, i) ==
    LET ends == {j \in (i + Len(mark))..Len(block) :
                    AtEnd(block, j) \/ \E t \in stops : OccursAt(block, t, j)}
    IN  IF OccursAt(block, mark, i)
        THEN Match(i, SetMin(ends), Slice(block, i, SetMin(ends)))
        ELSE NoMatch

\* re.findall of the sections that start with `mark`
Sections(block, mark, stops) ==
    FindAll([i \in Hits(block, mark, 0) |-> SectionAt(block, mark, stops, i)], 0)

\* re.sub(r'<shcutt>.*?</shcutt>', '', raw, flags=re.DOTALL) from offset i on
RECURSIVE SubShcutt(_, _)
SubShcutt(raw, i) ==
    LET m == Leftmost(LazyMatches(raw, << 60, 115, 104, 99, 117, 116, 116, 62 >> (* <shcutt> *), << 60, 47, 115, 104, 99, 117, 116, 116, 62 >> (* </shcutt> *), TRUE, i))
    IN  IF ~m.found THEN Slice(raw, i, Len(raw))
        ELSE Slice(raw, i, m.start) \o SubShcutt(raw, m.end)

\* the group of one topic section, senses included
ShcutGroup(shcut) ==
    LET h2 == Leftmost(TaggedMatches(shcut, << 60, 104, 50, 32, 99, 108, 97, 115, 115, 61, 34, 115, 104, 99, 117, 116, 34 >> (* <h2 class="shcut" *), << 60, 47, 104, 50, 62 >> (* </h2> *), TRUE))
        raw == h2.group
    IN  [topic_en |-> IF h2.found THEN strip_tags(SubShcutt(raw, 0)) ELSE << >>,
         topic_zh |-> IF h2.found
                      THEN StrippedText(Leftmost(LazyMatches(raw, << 60, 99, 104, 110, 62 >> (* <chn> *), << 60, 47, 99, 104, 110, 62 >> (* </chn> *), TRUE, 0)))
                      ELSE << >>,
         senses   |-> _parse_senses(shcut).senses]

\* if pre_senses: / if senses:
KeepsGroup(group) == group.senses # << >>

\* mutant of GroupsOf: the senses before the first section come last
GroupsOf_PreLast(block) ==
    LET first_section == FirstOf(block, { ShcutMark, IdmMark }, Len(block))
        pre == Group(<< >>, << >>, _parse_senses(Slice(block, 0, first_section)).senses)
        shcuts == Sections(block, ShcutMark, { ShcutMark, IdmMark })
    IN  SelectSeq([k \in 1..Len(shcuts) |-> ShcutGroup(shcuts[k])] \o << pre >>, KeepsGroup)

\* groups: the senses before the first section, then one group per topic
\* section, each only if it has senses
GroupsOf(block) ==
    LET first_section == FirstOf(block, { ShcutMark, IdmMark }, Len(block))
        pre == Group(<< >>, << >>, _parse_senses(Slice(block, 0, first_section)).senses)
        shcuts == Sections(block, ShcutMark, { ShcutMark, IdmMark })
    IN  SelectSeq(<< pre >> \o [k \in 1..Len(shcuts) |-> ShcutGroup(shcuts[k])], KeepsGroup)

\* a call of _parse_senses at line 203 or 219 raises
GroupsRaise(block) ==
    LET first_section == FirstOf(block, { ShcutMark, IdmMark }, Len(block))
        shcuts == Sections(block, ShcutMark, { ShcutMark, IdmMark })
    IN  \/ _parse_senses(Slice(block, 0, first_section)).raised
        \/ \E k \in 1..Len(shcuts) : _parse_senses(shcuts[k]).raised

\* the audio files of the examples of the groups
GroupsMedia(groups) == UNION {SensesMedia(groups[k].senses) : k \in 1..Len(groups)}

\* what _parse_pos_block returns, given the pos, audio_gb, audio_us and
\* groups it has found in the block: None (no dict) without a group, else
\* the dict
\* mutant of IsVerb: the verb forms are parsed whatever the part of speech
IsVerb_AnyPos(pos) == TRUE

\* the test `pos == "verb"` that guards the call of _parse_verb_forms
IsVerb(pos) == pos = << 118, 101, 114, 98 >> (* verb *)

PosBlockOf(block, fallback_headword, pos, audio_gb, audio_us, groups) ==
    LET m == Leftmost([i \in Hits(block, << 60, 104, 49 >> (* <h1 *), 0) |-> HeadwordAt(block, i)])
    IN  IF groups = << >> THEN << >>
        ELSE << [headword    |-> IF m.found THEN StrStrip(m.group) ELSE fallback_headword,
                 pos         |-> pos,
                 ipa_gb      |-> PhonOf(block, << 99, 108, 97, 115, 115, 61, 34, 112, 104, 111, 110, 115, 95, 98, 114, 34 >> (* class="phons_br" *)),
                 ipa_us      |-> PhonOf(block, << 99, 108, 97, 115, 115, 61, 34, 112, 104, 111, 110, 115, 95, 110, 95, 97, 109, 34 >> (* class="phons_n_am" *)),
                 audio_gb    |-> audio_gb,
                 audio_us    |-> audio_us,
                 groups      |-> groups,
                 verb_forms  |-> IF IsVerb(pos)
                                 THEN _parse_verb_forms(block) ELSE << >>,
                 media_files |-> (({audio_gb, audio_us} \ {<< >>}) \cup GroupsMedia(groups))
                                    \cup (IF IsVerb(pos)
                                          THEN VerbFormsMedia(VerbRows(block)) ELSE {}),
                 card_type   |-> << 119, 111, 114, 100 >> (* word *)] >>

\* the dict in a list (no dict for None), or the ValueError raised in
\* _parse_senses
_parse_pos_block(block, fallback_headword) ==
    IF GroupsRaise(block) THEN [raised |-> TRUE, parsed |-> << >>]
    ELSE [raised |-> FALSE, parsed |->
    PosBlockOf(block, fallback_headword,
               StrippedText(Leftmost(TextTagMatches(block, << 60, 115, 112, 97, 110, 32, 99, 108, 97, 115, 115, 61, 34, 112, 111, 115, 34 >> (* <span class="pos" *), << 60, 47, 115, 112, 97, 110, 62 >> (* </span> *)))),
               HeadAudio(block, << 95, 95, 103, 98, 95 >> (* __gb_ *)),
               HeadAudio(block, << 95, 95, 117, 115, 95 >> (* __us_ *)),
               GroupsOf(block))]

\* the dict of one idiom section, given its phrase and its senses;
\* headword = "" or no sense when it is skipped
IdiomOf(headword, senses) ==
    [headword    |-> headword,
     pos         |-> << 105, 100, 105, 111, 109 >> (* idiom *),
     ipa_gb      |-> << >>,
     ipa_us      |-> << >>,
     audio_gb    |-> << >>,
     audio_us    |-> << >>,
     groups      |-> << Group(<< >>, << >>, senses) >>,
     verb_forms  |-> << >>,
     media_files |-> SensesMedia(senses),
     card_type   |-> << 105, 100, 105, 111, 109 >> (* idiom *)]

\* the two `continue` tests: a phrase, and senses
KeepsIdiom(idiom) == idiom.headword # << >> /\ idiom.groups[1].senses # << >>

\* phrase = strip_tags(m.group(1)) if m else ""
PhraseOf(idm) ==
    StrippedGroup(Leftmost(TaggedMatches(idm, << 60, 115, 112, 97, 110, 32, 99, 108, 97, 115, 115, 61, 34, 105, 100, 109, 34 >> (* <span class="idm" *), << 60, 47, 115, 112, 97, 110, 62 >> (* </span> *), FALSE)))

\* the idioms returned, or the ValueError raised in _parse_senses, which is
\* called for the sections that have a phrase
_parse_idioms(block) ==
    LET idms == Sections(block, IdmMark, { IdmMark })
    IN  IF \E k \in 1..Len(idms) : PhraseOf(idms[k]) # << >> /\ _parse_senses(idms[k]).raised
        THEN [raised |-> TRUE, idioms |-> << >>]
        ELSE [raised |-> FALSE, idioms |->
                 SelectSeq([k \in 1..Len(idms) |->
                               IdiomOf(PhraseOf(idms[k]), _parse_senses(idms[k]).senses)],
                           KeepsIdiom)]

EntryMark == << 60, 100, 105, 118, 32, 99, 108, 97, 115, 115, 61, 34, 101, 110, 116, 114, 121, 34 >> (* <div class="entry" *)

\* m = re.search(r'd:title="([^"]+)"', html); m.group(1) if m else ""
FallbackTitle(html) ==
    LET open == << 100, 58, 116, 105, 116, 108, 101, 61, 34 >> (* d:title=" *)
        ms == [i \in Hits(html, open, 0) |->
                 LET q == Find(html, << 34 >> (* " *), i + Len(open))
                 IN  IF q > i + Len(open)
                     THEN Match(i, q + 1, Slice(html, i + Len(open), q))
                     ELSE NoMatch]
    IN  Leftmost(ms).group

\* re.split(r'(?=<div class="entry")', html)
SplitEntries(html) == SplitAt(html, Hits(html, EntryMark, 0), 0)

(***************************************************************************)
(* Containers of the model                                                 *)
(***************************************************************************)
\* most records in a container
MaxRecords == 2

\* the opaque region before the first record header
Preamble == [i \in 1..ScanStart |-> 0]

\* the text of a record with the given title bytes:  d:title="<title>">
RecordText(title) == TitlePrefix \o title \o << Quote, 62 >>

\* header (sz1, sz2, third field) followed by the payload
RecordBytes(sz1, sz2, payload) == LE32(sz1) \o LE32(sz2) \o LE32(1) \o payload

\* a well-formed record: sz2 is the payload length + 4
GoodRecord(sz1, title) ==
    LET z == ZlibStored(RecordText(title))
    IN  RecordBytes(sz1, Len(z) + 4, z)

\* the same with the last checksum byte changed: zlib.error
CorruptRecord(title) ==
    LET z == ZlibStored(RecordText(title))
        bad == [z EXCEPT ![Len(z)] = (z[Len(z)] + 1) % 256]
    IN  RecordBytes(7, Len(z) + 4, bad)

\* sz2 declares the whole payload, its last 4 bytes are missing
TruncatedRecord(title) ==
    LET z == ZlibStored(RecordText(title))
    IN  RecordBytes(7, Len(z) + 4, SubSeq(z, 1, Len(z) - 4))

\* sz2 declares 6 bytes more than the payload has
OverDeclaredRecord(title) ==
    LET z == ZlibStored(RecordText(title))
    IN  RecordBytes(7, Len(z) + 4 + 6, z)

\* a header with sz2 = 0 whose third field and the eight bytes after it make
\* up the header of a well-formed record
OverlappedRecord(title) ==
    LET z == ZlibStored(RecordText(title))
    IN  LE32(1) \o LE32(0) \o RecordBytes(7, Len(z) + 4, z)

\* a record whose payload is one block with the fixed Huffman codes: what
\* zlib.compress gives for the text  d:title="..">  whose title is U+0391
\* U+03A3 (capital alpha and sigma) in UTF-8, CE 91 CE A3
DeflatedRecord ==
    RecordBytes(7, 27,
      <<
        120, 156, 75, 177, 42, 201, 44, 201, 73, 181, 85, 58, 55, 241, 220,
        98, 37, 59, 0, 48, 202, 6, 80
      >>)

RecordKinds ==
    { GoodRecord(7, << 97 >>),                       \* title a
      GoodRecord(SanityCeiling, << 65 >>),           \* title A, sz1 at the ceiling
      GoodRecord(7, << 32, 98 >>),                   \* title " b"
      GoodRecord(7, << 98, 255 >>),                  \* title b, then an undecodable byte
      DeflatedRecord,                                \* title U+0391 U+03A3, Huffman codes
      CorruptRecord(<< 98 >>),
      TruncatedRecord(<< 98 >>),
      OverDeclaredRecord(<< 98 >>),
      RecordBytes(7, Len(ZlibStored(<< 120, 62 >>)) + 4, ZlibStored(<< 120, 62 >>)),
                                                     \* no title attribute
      RecordBytes(1, 0, << >>),                      \* sz2 = 0
      OverlappedRecord(<< 100 >>),                   \* sz2 = 0, title d 8 bytes on
      RecordBytes(1, 536870912, << >>),              \* sz2 = 2^29
      RecordBytes(0, 4, << >>),                      \* sz1 = 0
      GoodRecord(SanityCeiling + 1, << 98 >>) }      \* sz1 above the ceiling

RECURSIVE SeqsUpTo(_, _)
SeqsUpTo(S, n) ==
    IF n = 0 THEN { << >> }
    ELSE LET shorter == SeqsUpTo(S, n - 1)
         IN  shorter \cup { Append(q, x) : q \in {r \in shorter : Len(r) = n - 1}, x \in S }

\* every sz2 the scan of `data` uses from `pos` on is below 2^30
RECURSIVE ScanFits(_, _)
ScanFits(data, pos) ==
    IF LoopEnds(data, pos) THEN TRUE
    ELSE IF ~FitsAt(data, pos + 4) THEN FALSE
    ELSE ScanFits(data, NextPos(data, pos))

\* every Body.data of the model: a preamble and up to MaxRecords records
Containers ==
    { c \in { Preamble \o Concat(recs) : recs \in SeqsUpTo(RecordKinds, MaxRecords) } :
        ScanFits(c, ScanStart) }

\* what Body.data can be replaced by while the cache file stays
Replacements ==
    { c \in { Preamble \o Concat(recs) : recs \in SeqsUpTo(RecordKinds, 1) } :
        ScanFits(c, ScanStart) }

\* a well-formed record whose text has `pad` bytes (the letter x) before the
\* title attribute
PaddedRecord(pad, title) ==
    LET z == ZlibStored([i \in 1..pad |-> 120] \o RecordText(title))
    IN  RecordBytes(7, Len(z) + 4, z)

\* a record whose payload is one block with dynamic Huffman codes: what
\* zlib.compress(text, 9) gives for the 524 bytes of the 40 letters
\*   bcaccabcaaabacbcaabbbabaaabbababbccbbacc
\* repeated up to byte 512 and followed by  d:title="e">
DynamicRecord ==
    RecordBytes(7, 60,
      <<
        120, 218, 237, 138, 177, 9, 0, 32, 16, 196, 118, 113, 12, 65, 119,
        185, 139, 22, 130, 165, 251, 227, 255, 26, 98, 149, 64, 98, 4, 50,
        146, 44, 146, 182, 67, 147, 1, 27, 66, 200, 242, 191, 7, 191, 81,
        207, 58, 123, 182, 50, 75, 191, 119, 173, 199, 161
      >>)

\* records with the title at the start of the text, ending at byte 512 of
\* it, running over byte 512, and starting at byte 512; and one with
\* dynamic Huffman codes
LongRecordKinds ==
    { GoodRecord(7, << 97 >>),
      DynamicRecord,
      PaddedRecord(PartialBufSize - Len(RecordText(<< 98 >>)), << 98 >>),
      PaddedRecord(PartialBufSize - 5, << 99 >>),
      PaddedRecord(PartialBufSize, << 100 >>) }

\* containers of such records
LongContainers ==
    { Preamble \o Concat(recs) : recs \in SeqsUpTo(LongRecordKinds, MaxRecords) }

\* the words looked up:  a  A  a between U+00A0 and a tab  b  " b"
\* U+0391 U+03A3 (capital alpha and sigma)  U+0391 U+03C3 (capital alpha,
\* small sigma)
Words ==
    { << 97 >>, << 65 >>, << 160, 97, 9 >>, << 98 >>, << 32, 98 >>,
      << 913, 931 >>, << 913, 963 >> }

(***************************************************************************)
(* Markup given to extract_span                                            *)
(***************************************************************************)
\* most tags and characters in a markup string given to extract_span
MaxTokens == 7

DefClass == << 100, 101, 102 >> (* def *)

\* the pieces markup is made of:  <span class="def">  <span>  </span>  a
SpanTokens == { << 60, 115, 112, 97, 110, 32, 99, 108, 97, 115, 115, 61, 34, 100, 101, 102, 34, 62 >> (* <span class="def"> *), << 60, 115, 112, 97, 110, 62 >> (* <span> *), << 60, 47, 115, 112, 97, 110, 62 >> (* </span> *), << 97 >> (* a *) }

SpanDocs == SeqsUpTo(SpanTokens, MaxTokens)

(***************************************************************************)
(* Sense groups given to build_senses_html                                 *)
(***************************************************************************)
MaxGroups == 3

Example(text, text_zh, audio_us) ==
    [text |-> text, text_zh |-> text_zh, audio_us |-> audio_us]

QuietExample == Example(<< 120 >> (* x *), << >>, << >>)

ExampleA == Example(<< 121 >> (* y *), << 122 >> (* z *), << 97, 95, 117, 115, 115, 95, 49, 46, 109, 112, 51 >> (* a_uss_1.mp3 *))

ExampleB == Example(<< 119 >> (* w *), << >>, << 98, 95, 97, 109, 115, 95, 50, 46, 109, 112, 51 >> (* b_ams_2.mp3 *))

Sense(sense_num, variants, grammar, labels, definition_zh, examples) ==
    [sense_num |-> sense_num, grammar |-> grammar, labels |-> labels,
     variants |-> variants, definition |-> << 100 >> (* d *), definition_zh |-> definition_zh,
     examples |-> examples]

\* groups as the parser makes them: each with a sense, each sense with a definition
GroupKinds ==
    { Group(<< >>, << >>, << Sense(NoNum, << >>, << >>, << >>, << >>, << >>) >>),
      Group(<< >>, << >>, << Sense(SomeNum(1), << >>, << >>, << >>, << >>, << QuietExample >>) >>),
      Group(<< 116 >> (* t *), << >>, << Sense(SomeNum(12), << >>, << 103 >> (* g *), << >>, << >>, << ExampleA >>),
                            Sense(SomeNum(0), << 118 >> (* v *), << >>, << 108 >> (* l *), << 122 >> (* z *), << QuietExample, ExampleB >>) >>),
      Group(<< >>, << 122 >> (* z *), << Sense(NoNum, << >>, << >>, << >>, << >>, << QuietExample, ExampleB >>) >>),
      Group(<< 116 >> (* t *), << 122 >> (* z *), << Sense(SomeNum(3), << >>, << >>, << >>, << >>, << ExampleB, ExampleA >>) >>) }

HtmlInputs == {gs \in SeqsUpTo(GroupKinds, MaxGroups) : Len(gs) >= 1}

(***************************************************************************)
(* Record texts given to parse_entry                                       *)
(***************************************************************************)
MaxPieces == 4

\* the opening of an entry block
EntryPiece == EntryMark \o << 62 >> (* > *)

\* a sense with a definition
SensePiece == << 60, 108, 105, 32, 99, 108, 97, 115, 115, 61, 34, 115, 101, 110, 115, 101, 34, 62, 60, 115, 112, 97, 110, 32, 99, 108, 97, 115, 115, 61, 34, 100, 101, 102, 34, 62, 100, 60, 47, 115, 112, 97, 110, 62 >> (* <li class="sense"><span class="def">d</span> *)

\* a sense whose definition is empty once the tags are stripped: U+00A0 and a
\* form feed inside <b>
BlankSensePiece == << 60, 108, 105, 32, 99, 108, 97, 115, 115, 61, 34, 115, 101, 110, 115, 101, 34, 62, 60, 115, 112, 97, 110, 32, 99, 108, 97, 115, 115, 61, 34, 100, 101, 102, 34, 62, 60, 98, 62, 160, 12, 60, 47, 98, 62, 60, 47, 115, 112, 97, 110, 62 >> (* <li class="sense"><span class="def"><b>..</b></span> *)

\* a topic heading
TopicPiece == ShcutMark \o << 62, 60, 104, 50, 32, 99, 108, 97, 115, 115, 61, 34, 115, 104, 99, 117, 116, 34, 62, 116, 60, 47, 104, 50, 62 >> (* ><h2 class="shcut">t</h2> *)

\* the opening of an idiom section, with its phrase
IdiomPiece == IdmMark \o << 62, 60, 115, 112, 97, 110, 32, 99, 108, 97, 115, 115, 61, 34, 105, 100, 109, 34, 62, 105, 60, 47, 115, 112, 97, 110, 62 >> (* ><span class="idm">i</span> *)

ParsePieces == { EntryPiece, SensePiece, BlankSensePiece, TopicPiece, IdiomPiece }

\* a sense whose sensenum has one digit more than int() takes, and no
\* definition
LongNumPiece ==
    << 60, 108, 105, 32, 99, 108, 97, 115, 115, 61, 34, 115, 101, 110, 115, 101, 34, 32, 115, 101, 110, 115, 101, 110, 117, 109, 61, 34 >> (* <li class="sense" sensenum=" *)
    \o [i \in 1..(IntMaxStrDigits + 1) |-> 48 + (i % 2)] \o << 34, 62 >> (* "> *)

\* a numbered sense with a definition
NumberedSensePiece == << 60, 108, 105, 32, 99, 108, 97, 115, 115, 61, 34, 115, 101, 110, 115, 101, 34, 32, 115, 101, 110, 115, 101, 110, 117, 109, 61, 34, 48, 1639, 34, 62, 60, 115, 112, 97, 110, 32, 99, 108, 97, 115, 115, 61, 34, 100, 101, 102, 34, 62, 100, 60, 47, 115, 112, 97, 110, 62 >> (* <li class="sense" sensenum="0.."><span class="def">d</span> *)

\* the opening of an idiom section that has no phrase
BareIdiomPiece == IdmMark \o << 62 >> (* > *)

\* record texts with such a sensenum: in an entry block before and after a
\* sense, under a topic heading, in an idiom section with and without a
\* phrase, in a later block, and outside any entry block
LongNumDocs ==
    { << EntryPiece, LongNumPiece >>,
      << EntryPiece, NumberedSensePiece, LongNumPiece >>,
      << EntryPiece, SensePiece, TopicPiece, LongNumPiece >>,
      << EntryPiece, SensePiece, IdiomPiece, LongNumPiece >>,
      << EntryPiece, NumberedSensePiece, BareIdiomPiece, LongNumPiece >>,
      << EntryPiece, SensePiece, EntryPiece, LongNumPiece >>,
      << LongNumPiece, EntryPiece, NumberedSensePiece >> }

ParseDocs == SeqsUpTo(ParsePieces, MaxPieces) \cup LongNumDocs

\* a second sense, with another definition
OtherSensePiece == << 60, 108, 105, 32, 99, 108, 97, 115, 115, 61, 34, 115, 101, 110, 115, 101, 34, 62, 60, 115, 112, 97, 110, 32, 99, 108, 97, 115, 115, 61, 34, 100, 101, 102, 34, 62, 101, 60, 47, 115, 112, 97, 110, 62 >> (* <li class="sense"><span class="def">e</span> *)

\* the opening of a topic section that has no heading
BareTopicPiece == ShcutMark \o << 62 >> (* > *)

GroupPieces ==
    { EntryPiece, SensePiece, OtherSensePiece, BlankSensePiece, TopicPiece, BareTopicPiece, IdiomPiece }

GroupDocs == SeqsUpTo(GroupPieces, MaxPieces) \cup LongNumDocs

\* a part-of-speech tag: verb followed by U+00A0, and another one
VerbPosPiece == << 60, 115, 112, 97, 110, 32, 99, 108, 97, 115, 115, 61, 34, 112, 111, 115, 34, 62, 118, 101, 114, 98, 160, 60, 47, 115, 112, 97, 110, 62 >> (* <span class="pos">verb.</span> *)

NounPosPiece == << 60, 115, 112, 97, 110, 32, 99, 108, 97, 115, 115, 61, 34, 112, 111, 115, 34, 62, 110, 111, 117, 110, 60, 47, 115, 112, 97, 110, 62 >> (* <span class="pos">noun</span> *)

\* a row of the verb-forms table
VerbRowPiece == << 60, 116, 114, 32, 102, 111, 114, 109, 61, 34, 112, 97, 115, 116, 34, 62, 60, 116, 100, 32, 99, 108, 97, 115, 115, 61, 34, 118, 101, 114, 98, 95, 102, 111, 114, 109, 34, 62, 118, 60, 47, 116, 100, 62, 60, 47, 116, 114, 62 >> (* <tr form="past"><td class="verb_form">v</td></tr> *)

VerbPieces == { EntryPiece, SensePiece, IdiomPiece, VerbPosPiece, NounPosPiece, VerbRowPiece }

VerbDocs == SeqsUpTo(VerbPieces, MaxPieces) \cup LongNumDocs

(***************************************************************************)
(* State                                                                   *)
(***************************************************************************)
VARIABLES
    body,       \* the bytes of Body.data
    cache,      \* the file .oald10_index.json
    pc,         \* "idle" (no program runs), "scan" (in the scan loop), "loaded"
    prog,       \* the program that runs: "lookup_word" or "create_deck"
    data,       \* the scan's copy of Body.data
    pos,        \* the scan cursor
    index,      \* the dict `index` of the run
    word,       \* the last word given to get_entry_html in this run
    result,     \* what get_entry_html did with it
    looked,     \* whether get_entry_html was called in this run
    scans,      \* history: scans started since the cache was last deleted
    fresh       \* history: the cache was written by a scan of the present body

cvars == << body, cache, pc, prog, data, pos, index, word, result, looked, scans, fresh >>

VARIABLES
    stoks,      \* history: the pieces the markup was made of
    shtml,      \* html
    spc,        \* "start", "loop" (at the while test), "done" (returned)
    sstart,     \* content_start
    sdepth,     \* depth
    spos,       \* pos
    sresult     \* the value returned

svars == << stoks, shtml, spc, sstart, sdepth, spos, sresult >>

VARIABLES
    hgroups,    \* groups
    hpc,        \* "groups", "senses", "examples" (at the test of that loop), "done"
    hgi,        \* the place of `group` in groups (0 before the first)
    hsi,        \* the place of `s` in group["senses"]
    hei,        \* the place of `ex` in s["examples"]
    hparts,     \* parts
    hexamples,  \* examples_html
    hused,      \* first_audio_used
    hout        \* the value returned

hvars == << hgroups, hpc, hgi, hsi, hei, hparts, hexamples, hused, hout >>

VARIABLES
    ptoks,      \* history: the pieces the record text was made of
    phtml,      \* html
    ppc,        \* "start", "loop" (at the test of the loop over the blocks), "done",
                \* "raised" (the call ended with the ValueError of int())
    pfallback,  \* fallback
    pblocks,    \* the list re.split returned
    pbi,        \* the number of blocks gone through
    presults    \* results

pvars == << ptoks, phtml, ppc, pfallback, pblocks, pbi, presults >>

vars == << cvars, svars, hvars, pvars >>

\* what the actions of one part of the model leave alone
outsideContainer == << svars, hvars, pvars >>

outsideSpan == << cvars, hvars, pvars >>

outsideHtml == << cvars, svars, pvars >>

outsideParse == << cvars, svars, hvars >>

(***************************************************************************)
(* Runs of the programs over Body.data and the cache file                  *)
(***************************************************************************)
Programs == { "lookup_word", "create_deck" }

ContainerInit ==
    /\ body \in Containers
    /\ cache = NoFile
    /\ pc = "idle"
    /\ prog = "none"
    /\ data = << >>
    /\ pos = 0
    /\ index = << >>
    /\ word = << >>
    /\ result = None
    /\ looked = FALSE
    /\ scans = 0
    /\ fresh = FALSE

\* the same with a Body.data of long records
LongInit ==
    /\ body \in LongContainers
    /\ cache = NoFile
    /\ pc = "idle"
    /\ prog = "none"
    /\ data = << >>
    /\ pos = 0
    /\ index = << >>
    /\ word = << >>
    /\ result = None
    /\ looked = FALSE
    /\ scans = 0
    /\ fresh = FALSE

\* mutant of CacheExists: the cache file is never found
CacheExists_Never(file) == FALSE

\* INDEX_CACHE.exists()
CacheExists(file) == file.exists

\* load_index of either program, up to the first loop test: with the cache
\* file present the function returns json.loads(INDEX_CACHE.read_text()),
\* otherwise it reads Body.data and enters the scan loop at 0x60.
LoadIndex(p) ==
    /\ pc = "idle"
    /\ prog' = p
    /\ IF CacheExists(cache)
       THEN /\ index' = JsonLoads(cache.members)
            /\ pc' = "loaded"
            /\ UNCHANGED << data, pos, scans >>
       ELSE /\ index' = << >>
            /\ data' = body
            /\ pos' = ScanStart
            /\ pc' = "scan"
            /\ scans' = scans + 1
    /\ UNCHANGED << body, cache, word, result, looked, fresh >>
    /\ UNCHANGED outsideContainer

\* one iteration of the while loop that does not leave it
ScanStep ==
    /\ pc = "scan"
    /\ ~LoopEnds(data, pos)
    /\ index' = IndexAfter(index, data, pos)
    /\ pos' = NextPos(data, pos)
    /\ UNCHANGED << body, cache, pc, prog, data, word, result, looked, scans, fresh >>
    /\ UNCHANGED outsideContainer

\* what build_index / load_index returns after the loop: lookup_word returns
\* the dict it built, create_deck returns json.loads of the file it wrote
ReturnedIndex(p, built, file) ==
    IF p = "create_deck" THEN JsonLoads(file.members) ELSE built

\* the loop ends (guard false, or break): the index is written to the cache
\* file and returned
ScanStop ==
    /\ pc = "scan"
    /\ LoopEnds(data, pos)
    /\ cache' = FileWith(JsonDumps(index))
    /\ index' = ReturnedIndex(prog, index, cache')
    /\ pc' = "loaded"
    /\ data' = << >>
    /\ fresh' = TRUE
    /\ UNCHANGED << body, prog, pos, word, result, looked, scans >>
    /\ UNCHANGED outsideContainer

\* a call of get_entry_html by main
Lookup(w) ==
    /\ pc = "loaded"
    /\ word' = w
    /\ result' = get_entry_html(index, w, body)
    /\ looked' = TRUE
    /\ UNCHANGED << body, cache, pc, prog, data, pos, index, scans, fresh >>
    /\ UNCHANGED outsideContainer

\* the process exits
EndRun ==
    /\ pc = "loaded"
    /\ pc' = "idle"
    /\ prog' = "none"
    /\ index' = << >>
    /\ pos' = 0
    /\ word' = << >>
    /\ result' = None
    /\ looked' = FALSE
    /\ UNCHANGED << body, cache, data, scans, fresh >>
    /\ UNCHANGED outsideContainer

\* the user deletes .oald10_index.json between two runs
DeleteCache ==
    /\ pc = "idle"
    /\ CacheExists(cache)
    /\ cache' = NoFile
    /\ scans' = 0
    /\ fresh' = FALSE
    /\ UNCHANGED << body, pc, prog, data, pos, index, word, result, looked >>
    /\ UNCHANGED outsideContainer

\* Body.data is replaced (another version of the dictionary) between two
\* runs; nothing touches the cache file
ReplaceContainer(c) ==
    /\ pc = "idle"
    /\ c # body
    /\ body' = c
    /\ fresh' = FALSE
    /\ UNCHANGED << cache, pc, prog, data, pos, index, word, result, looked, scans >>
    /\ UNCHANGED outsideContainer

\* no program runs and no file is looked at
ContainerIdle ==
    /\ body = << >>
    /\ cache = NoFile
    /\ pc = "off"
    /\ prog = "none"
    /\ data = << >>
    /\ pos = 0
    /\ index = << >>
    /\ word = << >>
    /\ result = None
    /\ looked = FALSE
    /\ scans = 0
    /\ fresh = FALSE

(***************************************************************************)
(* extract_span, statement by statement                                    *)
(***************************************************************************)
SpanInit ==
    /\ stoks \in SpanDocs
    /\ shtml = Concat(stoks)
    /\ spc = "start"
    /\ sstart = 0
    /\ sdepth = 0
    /\ spos = 0
    /\ sresult = NoStr

\* no call of extract_span is under way
SpanIdle ==
    /\ stoks = << >>
    /\ shtml = << >>
    /\ spc = "idle"
    /\ sstart = 0
    /\ sdepth = 0
    /\ spos = 0
    /\ sresult = NoStr

\* lines 87-93: the marker is looked for; without it None is returned
SpanEnter ==
    /\ spc = "start"
    /\ LET idx == Find(shtml, ClassMarker(DefClass), 0)
       IN  IF idx = -1
           THEN /\ spc' = "done"
                /\ sresult' = NoStr
                /\ UNCHANGED << sstart, sdepth, spos >>
           ELSE /\ spc' = "loop"
                /\ sstart' = ContentStart(shtml, idx)
                /\ sdepth' = 1
                /\ spos' = ContentStart(shtml, idx)
                /\ UNCHANGED sresult
    /\ UNCHANGED << stoks, shtml >>
    /\ UNCHANGED outsideSpan

\* an iteration after which the loop goes on
SpanStep ==
    /\ spc = "loop"
    /\ SpanGuard(shtml, sdepth, spos)
    /\ LET it == SpanIter(shtml, sdepth, spos)
       IN  /\ it.next = "loop"
           /\ sdepth' = it.depth
           /\ spos' = it.pos
    /\ UNCHANGED << stoks, shtml, spc, sstart, sresult >>
    /\ UNCHANGED outsideSpan

\* the iteration in which depth comes back to 0: the content is returned
SpanReturn ==
    /\ spc = "loop"
    /\ SpanGuard(shtml, sdepth, spos)
    /\ LET it == SpanIter(shtml, sdepth, spos)
       IN  /\ it.next = "return"
           /\ sdepth' = it.depth
           /\ sresult' = SomeStr(Slice(shtml, sstart, it.close))
    /\ spc' = "done"
    /\ UNCHANGED << stoks, shtml, sstart, spos >>
    /\ UNCHANGED outsideSpan

\* the loop ends without a result (guard false, or break): None is returned
SpanGiveUp ==
    /\ spc = "loop"
    /\ IF SpanGuard(shtml, sdepth, spos)
       THEN SpanIter(shtml, sdepth, spos).next = "break"
       ELSE TRUE
    /\ spc' = "done"
    /\ sresult' = NoStr
    /\ UNCHANGED << stoks, shtml, sstart, sdepth, spos >>
    /\ UNCHANGED outsideSpan

SpanNext ==
    \/ SpanEnter
    \/ SpanStep
    \/ SpanReturn
    \/ SpanGiveUp

(***************************************************************************)
(* build_senses_html, loop by loop                                         *)
(***************************************************************************)
HtmlInit ==
    /\ hgroups \in HtmlInputs
    /\ hpc = "groups"
    /\ hgi = 0
    /\ hsi = 0
    /\ hei = 0
    /\ hparts = << >>
    /\ hexamples = << >>
    /\ hused = FALSE
    /\ hout = << >>

\* no call of build_senses_html is under way
HtmlIdle ==
    /\ hgroups = << >>
    /\ hpc = "idle"
    /\ hgi = 0
    /\ hsi = 0
    /\ hei = 0
    /\ hparts = << >>
    /\ hexamples = << >>
    /\ hused = FALSE
    /\ hout = << >>

\* for group in groups: the next group, and its topic if it has one
HtmlNextGroup ==
    /\ hpc = "groups"
    /\ hgi < Len(hgroups)
    /\ hgi' = hgi + 1
    /\ hparts' = IF hgroups[hgi + 1].topic_en # << >> \/ hgroups[hgi + 1].topic_zh # << >>
                 THEN Append(hparts, TopicPart(hgroups[hgi + 1]))
                 ELSE hparts
    /\ hsi' = 0
    /\ hpc' = "senses"
    /\ UNCHANGED << hgroups, hei, hexamples, hused, hout >>
    /\ UNCHANGED outsideHtml

\* for s in group["senses"]: the next sense; examples_html = ""
HtmlNextSense ==
    /\ hpc = "senses"
    /\ hsi < Len(hgroups[hgi].senses)
    /\ hsi' = hsi + 1
    /\ hexamples' = << >>
    /\ hei' = 0
    /\ hpc' = "examples"
    /\ UNCHANGED << hgroups, hgi, hparts, hused, hout >>
    /\ UNCHANGED outsideHtml

\* for ex in s["examples"]: the next example
HtmlNextExample ==
    /\ hpc = "examples"
    /\ hei < Len(hgroups[hgi].senses[hsi].examples)
    /\ LET ex == hgroups[hgi].senses[hsi].examples[hei + 1]
       IN  /\ hexamples' = hexamples \o ExampleHtml(ex, hused)
           /\ hused' = (hused \/ EmitsSound(ex, hused))
    /\ hei' = hei + 1
    /\ UNCHANGED << hgroups, hpc, hgi, hsi, hparts, hout >>
    /\ UNCHANGED outsideHtml

\* the examples of the sense are done: its part is appended
HtmlEndSense ==
    /\ hpc = "examples"
    /\ hei = Len(hgroups[hgi].senses[hsi].examples)
    /\ hparts' = Append(hparts, SensePart(hgroups[hgi].senses[hsi], hexamples))
    /\ hpc' = "senses"
    /\ UNCHANGED << hgroups, hgi, hsi, hei, hexamples, hused, hout >>
    /\ UNCHANGED outsideHtml

\* the senses of the group are done
HtmlEndGroup ==
    /\ hpc = "senses"
    /\ hsi = Len(hgroups[hgi].senses)
    /\ hpc' = "groups"
    /\ UNCHANGED << hgroups, hgi, hsi, hei, hparts, hexamples, hused, hout >>
    /\ UNCHANGED outsideHtml

\* return "\n".join(parts)
HtmlReturn ==
    /\ hpc = "groups"
    /\ hgi = Len(hgroups)
    /\ hout' = Join(<< 10 >> (* \n *), hparts)
    /\ hpc' = "done"
    /\ UNCHANGED << hgroups, hgi, hsi, hei, hparts, hexamples, hused >>
    /\ UNCHANGED outsideHtml

HtmlNext ==
    \/ HtmlNextGroup
    \/ HtmlNextSense
    \/ HtmlNextExample
    \/ HtmlEndSense
    \/ HtmlEndGroup
    \/ HtmlReturn

(***************************************************************************)
(* parse_entry, block by block                                             *)
(***************************************************************************)
ParseInit ==
    /\ ptoks \in ParseDocs
    /\ phtml = Concat(ptoks)
    /\ ppc = "start"
    /\ pfallback = << >>
    /\ pblocks = << >>
    /\ pbi = 0
    /\ presults = << >>

\* a call of parse_entry on a record text with part-of-speech tags and
\* verb-form rows
VerbInit ==
    /\ ptoks \in VerbDocs
    /\ phtml = Concat(ptoks)
    /\ ppc = "start"
    /\ pfallback = << >>
    /\ pblocks = << >>
    /\ pbi = 0
    /\ presults = << >>

\* a call of parse_entry on a record text with topic sections, with and
\* without a heading
GroupInit ==
    /\ ptoks \in GroupDocs
    /\ phtml = Concat(ptoks)
    /\ ppc = "start"
    /\ pfallback = << >>
    /\ pblocks = << >>
    /\ pbi = 0
    /\ presults = << >>

\* no call of parse_entry is under way
ParseIdle ==
    /\ ptoks = << >>
    /\ phtml = << >>
    /\ ppc = "idle"
    /\ pfallback = << >>
    /\ pblocks = << >>
    /\ pbi = 0
    /\ presults = << >>

\* the fallback title is looked for and the text is split into blocks
ParseStart ==
    /\ ppc = "start"
    /\ pfallback' = FallbackTitle(phtml)
    /\ pblocks' = SplitEntries(phtml)
    /\ ppc' = "loop"
    /\ UNCHANGED << ptoks, phtml, pbi, presults >>
    /\ UNCHANGED outsideParse

\* a block without class="entry": continue
ParseSkip ==
    /\ ppc = "loop"
    /\ pbi < Len(pblocks)
    /\ ~Contains(pblocks[pbi + 1], << 99, 108, 97, 115, 115, 61, 34, 101, 110, 116, 114, 121, 34 >> (* class="entry" *))
    /\ pbi' = pbi + 1
    /\ UNCHANGED << ptoks, phtml, ppc, pfallback, pblocks, presults >>
    /\ UNCHANGED outsideParse

\* _parse_pos_block or _parse_idioms raises on the block
BlockRaises(block, fallback) ==
    _parse_pos_block(block, fallback).raised \/ _parse_idioms(block).raised

\* an entry block: its dict, if it has one, then the dicts of its idioms
ParseBlock ==
    /\ ppc = "loop"
    /\ pbi < Len(pblocks)
    /\ Contains(pblocks[pbi + 1], << 99, 108, 97, 115, 115, 61, 34, 101, 110, 116, 114, 121, 34 >> (* class="entry" *))
    /\ ~BlockRaises(pblocks[pbi + 1], pfallback)
    /\ presults' = presults \o _parse_pos_block(pblocks[pbi + 1], pfallback).parsed
                             \o _parse_idioms(pblocks[pbi + 1]).idioms
    /\ pbi' = pbi + 1
    /\ UNCHANGED << ptoks, phtml, ppc, pfallback, pblocks >>
    /\ UNCHANGED outsideParse

\* an entry block with a sensenum of more than IntMaxStrDigits digits: the
\* ValueError of line 118 is not caught, the call ends and returns nothing
ParseRaise ==
    /\ ppc = "loop"
    /\ pbi < Len(pblocks)
    /\ Contains(pblocks[pbi + 1], << 99, 108, 97, 115, 115, 61, 34, 101, 110, 116, 114, 121, 34 >> (* class="entry" *))
    /\ BlockRaises(pblocks[pbi + 1], pfallback)
    /\ ppc' = "raised"
    /\ presults' = << >>
    /\ UNCHANGED << ptoks, phtml, pfallback, pblocks, pbi >>
    /\ UNCHANGED outsideParse

\* return results
ParseReturn ==
    /\ ppc = "loop"
    /\ pbi = Len(pblocks)
    /\ ppc' = "done"
    /\ UNCHANGED << ptoks, phtml, pfallback, pblocks, pbi, presults >>
    /\ UNCHANGED outsideParse

ParseNext ==
    \/ ParseStart
    \/ ParseSkip
    \/ ParseBlock
    \/ ParseRaise
    \/ ParseReturn

(***************************************************************************)
(* Specifications                                                          *)
(***************************************************************************)
ContainerNext ==
    \/ \E p \in Programs : LoadIndex(p)
    \/ ScanStep
    \/ ScanStop
    \/ \E w \in Words : Lookup(w)
    \/ EndRun
    \/ DeleteCache
    \/ \E c \in Replacements : ReplaceContainer(c)

\* runs of lookup_word.py and create_deck.py over Body.data and the cache file
Init == ContainerInit /\ SpanIdle /\ HtmlIdle /\ ParseIdle

Spec == Init /\ [][ContainerNext]_vars

\* the same runs over containers whose records are longer than 512 bytes
InitLong == LongInit /\ SpanIdle /\ HtmlIdle /\ ParseIdle

SpecLong == InitLong /\ [][ContainerNext]_vars

\* calls of extract_span
InitSpan == SpanInit /\ ContainerIdle /\ HtmlIdle /\ ParseIdle

SpecSpan == InitSpan /\ [][SpanNext]_vars

\* calls of build_senses_html
InitHtml == HtmlInit /\ ContainerIdle /\ SpanIdle /\ ParseIdle

SpecHtml == InitHtml /\ [][HtmlNext]_vars

\* calls of parse_entry
InitParse == ParseInit /\ ContainerIdle /\ SpanIdle /\ HtmlIdle

SpecParse == InitParse /\ [][ParseNext]_vars

\* calls of parse_entry on record texts with topic sections
InitGroup == GroupInit /\ ContainerIdle /\ SpanIdle /\ HtmlIdle

SpecGroup == InitGroup /\ [][ParseNext]_vars

\* calls of parse_entry on record texts with verb-form rows
InitVerb == VerbInit /\ ContainerIdle /\ SpanIdle /\ HtmlIdle

SpecVerb == InitVerb /\ [][ParseNext]_vars

(***************************************************************************)
(* Properties of the container scanner, the cache and the reader           *)
(***************************************************************************)
\* the header offsets the scan of `dat` visits without leaving the loop
RECURSIVE Headers(_, _)
Headers(dat, p) ==
    IF LoopEnds(dat, p) THEN {} ELSE {p} \cup Headers(dat, NextPos(dat, p))

\* the lowercased title found in the record at header offset o, if any
KeyAt(dat, o) ==
    LET m == RecordTitle(dat, o)
    IN  [found |-> m.found, key |-> Lower(Utf8Decode(m.group))]

\* `text` contains  d:title="T"  for a title T (no quote in it) whose
\* lowercased form is `key`
ContainsTitleOf(text, key) ==
    \E i \in 0..(Len(text) - 1) :
        /\ OccursAt(text, TitlePrefix, i)
        /\ LET from   == i + Len(TitlePrefix)
               quotes == {j \in from..(Len(text) - 1) : text[j + 1] = Quote}
           IN  /\ quotes # {}
               /\ SetMin(quotes) > from
               /\ Lower(Slice(text, from, SetMin(quotes))) = key

\* C1: for every (key, offset) of an index produced by scanning the container,
\* reading the record at that offset succeeds and the text holds the very
\* title whose lowercased form is the key.
C1_ReadBack ==
    (pc = "loaded" /\ fresh) =>
        \A i \in 1..Len(index) :
            LET r == ReadRecord(body, index[i].v)
            IN  /\ r.kind = "text"
                /\ ContainsTitleOf(r.text, index[i].k)

\* two entries were indexed, one of them under a key with U+FFFD in it
C1_Witness ==
    /\ pc = "loaded"
    /\ fresh
    /\ Len(index) = 2
    /\ \E i \in 1..Len(index) : index[i].k = << 98, ReplacementChar >>

\* C2: the scan loop terminates on every container.  Every iteration that
\* does not leave the loop starts with the cursor more than 12 bytes before
\* the end of the data and moves it strictly forward, to header offset + 12 +
\* (sz2 - 4), whether the try block added an entry or not: Len(data) - pos is
\* a variant of the loop.
C2_ScanAdvances ==
    [][(pc = "scan" /\ pc' = "scan") =>
          /\ data' = data
          /\ pos < Len(data) - 12
          /\ pos' > pos
          /\ pos' = pos + 12 + (U32At(data, pos + 4) - 4)]_vars

\* the cursor has moved over a header with sz2 = 0 whose record gave no entry
C2_Witness ==
    /\ pc = "scan"
    /\ pos = ScanStart + 8
    /\ index = << >>

\* C3: a run scans exactly when the cache file is absent at its start; a run
\* that finds the file returns its content and leaves it; a scanning run
\* writes the index it built; no run removes the file; so at most one scan
\* starts between two deletions.
C3_ScanOncePerCache ==
    [][/\ (pc = "idle" /\ pc' # "idle") =>
            /\ (pc' = "scan") <=> ~cache.exists
            /\ cache.exists =>
                 /\ pc' = "loaded"
                 /\ index' = JsonLoads(cache.members)
                 /\ cache' = cache
       /\ (pc = "scan" /\ pc' = "loaded") =>
            /\ cache'.exists
            /\ JsonLoads(cache'.members) = index
            /\ index' = index
       /\ (cache.exists /\ ~cache'.exists) => (pc = "idle" /\ pc' = "idle")
       /\ scans' <= 1]_vars

\* a run that found the cache written by an earlier run and returned its
\* (non-empty) content without scanning
C3_Witness ==
    /\ pc = "loaded"
    /\ pos = 0
    /\ scans = 1
    /\ Len(index) > 0

\* s without its leading and trailing white space
RECURSIVE Trim(_)
Trim(s) ==
    IF s = << >> THEN s
    ELSE IF IsSpace(Head(s)) THEN Trim(Tail(s))
    ELSE IF IsSpace(s[Len(s)]) THEN Trim(SubSeq(s, 1, Len(s) - 1))
    ELSE s

\* t1 and t2 differ only in letter case or surrounding white space
SameTitle(t1, t2) ==
    /\ Len(Trim(t1)) = Len(Trim(t2))
    /\ \A i \in 1..Len(Trim(t1)) : LowerChar(Trim(t1)[i]) = LowerChar(Trim(t2)[i])

\* the plaintext of the record whose header is at offset o
PlainAt(dat, o) ==
    ZlibDecompress(Slice(dat, ZlibStartOf(o), ZlibStartOf(o) + CompressedSizeOf(U32At(dat, o + 4))))

\* what a lookup is expected to return under the key `key`: None without
\* the key, else the decoded plaintext of the record at the key's offset
ExpectedLookup(idx, key, dat) ==
    IF ~DictHas(idx, key) THEN None
    ELSE Text(Utf8Decode(PlainAt(dat, DictGet(idx, key)).out))

\* C4 as stated, its last part: words that differ only in letter case or
\* surrounding white space get the same result.
C4_SameResultWhateverCase ==
    looked =>
        \A t \in Words : SameTitle(t, word) => get_entry_html(index, t, body) = result

\* C4, amended: with an index built by a scan of the present container,
\* get_entry_html returns None exactly when trim(lowercase(word)) is no key
\* of the index; otherwise the record at the key's offset inflates without
\* error and the call returns its decoded text; every word with the same
\* trim(lowercase(.)) gets that same result.
C4_LookupNormalizes ==
    (looked /\ fresh) =>
        LET key == Trim(Lower(word))
        IN  /\ (result = None) <=> ~DictHas(index, key)
            /\ DictHas(index, key) =>
                  /\ PlainAt(body, DictGet(index, key)).ok
                  /\ result.kind = "text"
            /\ result = ExpectedLookup(index, key, body)
            /\ \A t \in Words :
                  Trim(Lower(t)) = key =>
                      get_entry_html(index, t, body) = ExpectedLookup(index, key, body)

\* "A" was looked up in an index built from the present container and the
\* text of the record indexed under "a" was returned
C4_Witness ==
    /\ looked
    /\ fresh
    /\ word = << 65 >>
    /\ result.kind = "text"
    /\ ContainsTitleOf(result.text, << 97 >>)

\* o lies within `dat` and is a record header the scan of `dat` reaches
OffsetValid(dat, o) ==
    /\ ScanStart <= o
    /\ o + HeaderLen <= Len(dat)
    /\ o \in Headers(dat, ScanStart)

\* C7 as stated: every offset of every index load_index returns lies within
\* the present container, at a header its scan reaches.
C7_OffsetsInCurrentContainer ==
    pc = "loaded" => \A i \in 1..Len(index) : OffsetValid(body, index[i].v)

\* C7, amended: the same for an index whose cache file was written by a scan
\* of the container as it is now.
C7_OffsetsInScannedContainer ==
    (pc = "loaded" /\ fresh) => \A i \in 1..Len(index) : OffsetValid(body, index[i].v)

\* an index reloaded, in a later run, from the cache of the unchanged container
C7_Witness ==
    /\ pc = "loaded"
    /\ fresh
    /\ pos = 0
    /\ Len(index) > 0

\* C8: no key occurs twice in the index; its keys are the lowercased titles
\* of the records the scan decoded, each mapped to the highest header offset
\* among the records with that lowercased title.
C8_LastOffsetWins ==
    (pc = "loaded" /\ fresh) =>
        LET keys    == [o \in Headers(body, ScanStart) |-> KeyAt(body, o)]
            decoded == {o \in DOMAIN keys : keys[o].found}
        IN  /\ \A i, j \in 1..Len(index) : index[i].k = index[j].k => i = j
            /\ DictKeys(index) = {keys[o].key : o \in decoded}
            /\ \A i \in 1..Len(index) :
                 index[i].v = SetMax({o \in decoded : keys[o].key = index[i].k})

\* titles "a" and "A" were both decoded; the one key maps to the second record
C8_Witness ==
    /\ pc = "loaded"
    /\ fresh
    /\ Len(index) = 1
    /\ index[1].k = << 97 >>
    /\ index[1].v > ScanStart
    /\ KeyAt(body, ScanStart).found
    /\ KeyAt(body, ScanStart).key = << 97 >>

(***************************************************************************)
(* Properties of extract_span                                              *)
(***************************************************************************)
\* a piece of markup that is an opening tag of a span
IsOpenTok(t) == OccursAt(t, SpanOpenTag, 0)

\* a piece of markup that is the closing tag of a span
IsCloseTok(t) == t = SpanCloseTag

\* an opening tag of a span that carries the class
CarriesClass(t, cls) == t = SpanOpenTag \o << 32 >> (*   *) \o ClassMarker(cls) \o << 62 >> (* > *)

\* the place of the first element carrying the class among the pieces, or 0
FirstCarrier(toks, cls) ==
    LET at == {i \in 1..Len(toks) : CarriesClass(toks[i], cls)}
    IN  IF at = {} THEN 0 ELSE SetMin(at)

\* the nesting depth after piece j, counted from 1 just after the opening tag i
Balance(toks, i, j) ==
    1 + Cardinality({k \in (i + 1)..j : IsOpenTok(toks[k])})
      - Cardinality({k \in (i + 1)..j : IsCloseTok(toks[k])})

\* the place of the closing tag that matches the opening tag i, or 0
MatchingClose(toks, i) ==
    LET at == {j \in (i + 1)..Len(toks) : Balance(toks, i, j) = 0}
    IN  IF at = {} THEN 0 ELSE SetMin(at)

\* the number of spans nested in the element opened at i and closed at j
NestedSpans(toks, i, j) == Cardinality({k \in (i + 1)..(j - 1) : IsOpenTok(toks[k])})

\* C5: when the first element carrying the class is a span closed by a
\* matching tag, with any number of spans properly nested in it, the call
\* returns exactly the markup between the end of its opening tag and that
\* matching closing tag.
C5_NestedSpanContent ==
    LET i == FirstCarrier(stoks, DefClass)
        j == IF i = 0 THEN 0 ELSE MatchingClose(stoks, i)
    IN  (spc = "done" /\ j # 0) =>
            sresult = SomeStr(Concat(SubSeq(stoks, i + 1, j - 1)))

\* a span with two spans nested in it, one of them of the same class, and
\* markup after its closing tag, was extracted
C5_Witness ==
    LET i == FirstCarrier(stoks, DefClass)
        j == IF i = 0 THEN 0 ELSE MatchingClose(stoks, i)
    IN  /\ spc = "done"
        /\ j # 0
        /\ j < Len(stoks)
        /\ NestedSpans(stoks, i, j) = 2
        /\ \E k \in (i + 1)..(j - 1) : CarriesClass(stoks[k], DefClass)
        /\ sresult.some
        /\ Len(sresult.s) > 0

\* C10: the call ends, every iteration moving pos forward within the markup,
\* and it returns None when no element carries the class or when the closing
\* tags run out before the depth returns to zero.
C10_NoneOnMalformed ==
    /\ [](LET i == FirstCarrier(stoks, DefClass)
              j == IF i = 0 THEN 0 ELSE MatchingClose(stoks, i)
          IN  (spc = "done" /\ j = 0) => sresult = NoStr)
    /\ [][(spc = "loop" /\ spc' = "loop") => (spos < Len(shtml) /\ spos' > spos)]_vars

\* the element carrying the class has a span nested in it and closed, its
\* own closing tag is missing; the loop ran and None was returned
C10_Witness ==
    LET i == FirstCarrier(stoks, DefClass)
    IN  /\ spc = "done"
        /\ i # 0
        /\ MatchingClose(stoks, i) = 0
        /\ \E k \in (i + 1)..Len(stoks) : IsCloseTok(stoks[k])
        /\ spos > sstart
        /\ sresult = NoStr

(***************************************************************************)
(* Properties of build_senses_html                                         *)
(***************************************************************************)
\* the offsets at which `sub` occurs in s
Occurrences(s, sub) == {i \in 0..(Len(s) - Len(sub)) : OccursAt(s, sub, i)}

\* what opens a sound reference, and what opens the item of an example
SoundMark == << 91, 115, 111, 117, 110, 100, 58 >> (* [sound: *)

ExampleMark == << 60, 108, 105, 32, 99, 108, 97, 115, 115, 61, 34, 101, 120, 97, 109, 112, 108, 101, 34, 62 >> (* <li class="example"> *)

RECURSIVE FlatSenses(_)
FlatSenses(groups) ==
    IF groups = << >> THEN << >> ELSE Head(groups).senses \o FlatSenses(Tail(groups))

\* the examples of an entry in the order the serialization meets them
RECURSIVE ExamplesOf(_)
ExamplesOf(senses) ==
    IF senses = << >> THEN << >> ELSE Head(senses).examples \o ExamplesOf(Tail(senses))

FlatExamples(groups) == ExamplesOf(FlatSenses(groups))

\* the sound references of the output that lie in the item of the k-th example
SoundsIn(out, k) ==
    LET items == Occurrences(out, ExampleMark)
        from  == {o \in items : Cardinality({p \in items : p < o}) = k - 1}
        to    == {o \in items : Cardinality({p \in items : p < o}) = k}
    IN  {i \in Occurrences(out, SoundMark) :
            /\ \E o \in from : o < i
            /\ \A o \in to : i < o}

\* C9 as stated: the one example that may get a sound reference is the
\* first example the serialization meets.
C9_OnlyFirstExampleSounds ==
    hpc = "done" =>
        /\ Cardinality(Occurrences(hout, SoundMark)) <= 1
        /\ Occurrences(hout, SoundMark) \subseteq SoundsIn(hout, 1)

\* C9, amended: the example that gets a sound reference is the first one
\* that has a US audio file; no other example of the entry gets one, and
\* without such an example the output has no sound reference.
C9_OnlyFirstAudioSounds ==
    hpc = "done" =>
        LET exs   == FlatExamples(hgroups)
            audio == {k \in 1..Len(exs) : exs[k].audio_us # << >>}
        IN  IF audio = {} THEN Occurrences(hout, SoundMark) = {}
            ELSE LET k == SetMin(audio)
                 IN  /\ Cardinality(Occurrences(hout, SoundMark)) = 1
                     /\ Occurrences(hout, SoundMark) = SoundsIn(hout, k)
                     /\ \A i \in Occurrences(hout, SoundMark) :
                            OccursAt(hout, SoundMark \o exs[k].audio_us \o << 93 >> (* ] *), i)

\* the first example has no audio; examples of two later senses have, and
\* the first of these got the sound reference
C9_Witness ==
    LET exs   == FlatExamples(hgroups)
        audio == {k \in 1..Len(exs) : exs[k].audio_us # << >>}
    IN  /\ hpc = "done"
        /\ Len(hgroups) >= 2
        /\ Cardinality(audio) >= 2
        /\ 1 \notin audio
        /\ \E k \in audio : exs[k].audio_us # exs[SetMin(audio)].audio_us
        /\ Cardinality(Occurrences(hout, SoundMark)) = 1

(***************************************************************************)
(* Properties of parse_entry                                               *)
(***************************************************************************)
\* the place of the last piece before k that is one of `kinds`, or 0
LastBefore(toks, kinds, k) ==
    LET at == {m \in 1..(k - 1) : toks[m] \in kinds}
    IN  IF at = {} THEN 0 ELSE SetMax(at)

\* the pieces that are a sense with the definition "d"
PlainSenses == { SensePiece, NumberedSensePiece }

\* the pieces that open an idiom section
IdiomOpenings == { IdiomPiece, BareIdiomPiece }

\* the valid senses of the pieces that count for the entry of their block:
\* those in an entry block that come before any heading, or after a topic
\* heading with no idiom opening in between
WordSenses(toks) ==
    {k \in 1..Len(toks) :
        /\ toks[k] \in PlainSenses
        /\ LastBefore(toks, { EntryPiece }, k) # 0
        /\ LET m == LastBefore(toks, { EntryPiece, TopicPiece } \cup IdiomOpenings, k)
           IN  toks[m] \notin IdiomOpenings}

\* the entry blocks that have such a sense
WordBlocks(toks) == {LastBefore(toks, { EntryPiece }, k) : k \in WordSenses(toks)}

\* the idiom sections with a phrase, inside an entry block, with a valid
\* sense before the next idiom opening or the end of the block
IdiomSections(toks) ==
    {m \in 1..Len(toks) :
        /\ toks[m] = IdiomPiece
        /\ LastBefore(toks, { EntryPiece }, m) # 0
        /\ \E k \in (m + 1)..Len(toks) :
              /\ toks[k] \in PlainSenses
              /\ LastBefore(toks, { EntryPiece } \cup IdiomOpenings, k) = m}

\* the places in the results of the entries of one card type
EntriesOfType(results, card_type) ==
    {n \in 1..Len(results) : results[n].card_type = card_type}

\* C6: every entry parse_entry returns has a group, every group a sense,
\* every sense a definition that is not blank; and an entry block or idiom
\* section without a valid sense gives no entry (the entries are as many as
\* the blocks, and as the idiom sections, that have one).
C6_NoEmptyEntries ==
    ppc = "done" =>
        /\ \A n \in 1..Len(presults) :
              /\ Len(presults[n].groups) >= 1
              /\ \A g \in 1..Len(presults[n].groups) :
                    /\ Len(presults[n].groups[g].senses) >= 1
                    /\ \A k \in 1..Len(presults[n].groups[g].senses) :
                          StrStrip(presults[n].groups[g].senses[k].definition) # << >>
        /\ Cardinality(EntriesOfType(presults, << 119, 111, 114, 100 >> (* word *))) = Cardinality(WordBlocks(ptoks))
        /\ Cardinality(EntriesOfType(presults, << 105, 100, 105, 111, 109 >> (* idiom *))) = Cardinality(IdiomSections(ptoks))

\* an entry came out of a block that also has an idiom section whose only
\* sense has a blank definition: the section gave no entry
C6_Witness ==
    /\ ppc = "done"
    /\ Len(presults) = 1
    /\ \E m \in 1..Len(ptoks) : ptoks[m] = IdiomPiece /\ m \notin IdiomSections(ptoks)
    /\ \E k \in 1..Len(ptoks) :
          /\ ptoks[k] = BlankSensePiece
          /\ LastBefore(ptoks, { EntryPiece, TopicPiece, IdiomPiece }, k) # 0
          /\ ptoks[LastBefore(ptoks, { EntryPiece, TopicPiece, IdiomPiece }, k)] = IdiomPiece

\* the entry blocks of the pieces: for each piece, the place of the entry
\* opening whose block it is in (0 before the first)
BlockOfPiece(toks, k) ==
    IF toks[k] = EntryPiece THEN k ELSE LastBefore(toks, { EntryPiece }, k)

\* the blocks that hold a verb-form row
BlocksWithRows(toks) ==
    {BlockOfPiece(toks, k) : k \in {j \in 1..Len(toks) : toks[j] = VerbRowPiece}} \ {0}

\* C11: an entry parse_entry returns has an empty verb-forms list unless it
\* is of kind word and its part-of-speech tag is "verb"; the entries of the
\* idioms, and of the blocks whose tag is another one, have none.
C11_VerbFormsOnlyForVerbs ==
    ppc = "done" =>
        \A n \in 1..Len(presults) :
            presults[n].verb_forms # << >> =>
                /\ presults[n].card_type = << 119, 111, 114, 100 >> (* word *)
                /\ presults[n].pos = << 118, 101, 114, 98 >> (* verb *)

\* the call returned the entry of a noun block and the entry of its idiom,
\* the block holds a verb-form row, and neither entry has verb forms
C11_Witness ==
    /\ ppc = "done"
    /\ BlocksWithRows(ptoks) # {}
    /\ \E n \in 1..Len(presults) :
          /\ presults[n].card_type = << 119, 111, 114, 100 >> (* word *)
          /\ presults[n].pos = << 110, 111, 117, 110 >> (* noun *)
          /\ presults[n].verb_forms = << >>

\* the lowercased title found in the first 512 bytes of that plaintext
KeyInPrefixAt(dat, o) ==
    LET m == SearchTitle(Slice(PlainAt(dat, o).out, 0, PartialBufSize))
    IN  [found |-> m.found, key |-> Lower(Utf8Decode(m.group))]

\* C12: the scan looks for the title in the first 512 bytes of a record's
\* plaintext only: every key of the index it built is the lowercased title
\* found in that prefix of the record at its offset.
C12_TitleWithinPrefix ==
    (pc = "loaded" /\ fresh) =>
        \A i \in 1..Len(index) :
            /\ PlainAt(body, index[i].v).ok
            /\ KeyInPrefixAt(body, index[i].v) = [found |-> TRUE, key |-> index[i].k]

\* the definitions of the valid senses among the pieces `seg`, in order
SenseDefsOf(seg) ==
    LET valid == SelectSeq(seg, LAMBDA t : t \in PlainSenses \cup { OtherSensePiece })
    IN  [k \in 1..Len(valid) |-> IF valid[k] \in PlainSenses THEN << 100 >> (* d *) ELSE << 101 >> (* e *)]

\* the place of the first topic or idiom opening after place m of the pieces
\* of a block (one past the end if there is none)
NextMarker(bt, m) ==
    SetMin({j \in (m + 1)..Len(bt) : bt[j] \in { TopicPiece, BareTopicPiece } \cup IdiomOpenings}
             \cup { Len(bt) + 1 })

\* labels and definitions of a group
Labelled(topic_en, topic_zh, defs) ==
    [topic_en |-> topic_en, topic_zh |-> topic_zh, defs |-> defs]

\* the ungrouped bucket of a block: the valid senses before its first marker
PreBucket(bt) == Labelled(<< >>, << >>, SenseDefsOf(SubSeq(bt, 1, NextMarker(bt, 0) - 1)))

\* the region of the topic opening at place m: its heading, if it has one,
\* and the valid senses up to the next marker
TopicRegion(bt, m) ==
    Labelled(IF bt[m] = TopicPiece THEN << 116 >> (* t *) ELSE << >>, << >>,
             SenseDefsOf(SubSeq(bt, m + 1, NextMarker(bt, m) - 1)))

\* the groups expected of a block: the bucket, then the topic regions in
\* document order, each only if it has a valid sense
ExpectedGroups(bt) ==
    LET topics == SelectSeq([m \in 1..Len(bt) |-> m], LAMBDA m : bt[m] \in { TopicPiece, BareTopicPiece })
    IN  SelectSeq(<< PreBucket(bt) >> \o [k \in 1..Len(topics) |-> TopicRegion(bt, topics[k])],
                  LAMBDA g : g.defs # << >>)

\* the pieces of the entry blocks that are expected to give a word entry, in
\* order, each without its opening
BlocksWithGroups(toks) ==
    LET opens == SelectSeq([k \in 1..Len(toks) |-> k], LAMBDA k : toks[k] = EntryPiece)
        block(n) == SubSeq(toks, opens[n] + 1,
                           IF n < Len(opens) THEN opens[n + 1] - 1 ELSE Len(toks))
    IN  SelectSeq([n \in 1..Len(opens) |-> block(n)], LAMBDA bt : ExpectedGroups(bt) # << >>)

\* labels and definitions of the groups of an entry
GroupsShape(entry) ==
    [g \in 1..Len(entry.groups) |->
        Labelled(entry.groups[g].topic_en, entry.groups[g].topic_zh,
                 [k \in 1..Len(entry.groups[g].senses) |-> entry.groups[g].senses[k].definition])]

\* the word entries of the results, in order
WordEntries(results) == SelectSeq(results, LAMBDA e : e.card_type = << 119, 111, 114, 100 >> (* word *))

\* C13 (as stated): in every word entry a group whose two topic labels are
\* empty is the first group and holds exactly the valid senses before the
\* first topic or idiom marker of its block.
C13_EmptyLabelIsBucket ==
    ppc = "done" =>
        /\ Len(WordEntries(presults)) = Len(BlocksWithGroups(ptoks))
        /\ \A n \in 1..Len(WordEntries(presults)) :
              \A g \in 1..Len(WordEntries(presults)[n].groups) :
                  (/\ WordEntries(presults)[n].groups[g].topic_en = << >>
                   /\ WordEntries(presults)[n].groups[g].topic_zh = << >>)
                  => /\ g = 1
                     /\ GroupsShape(WordEntries(presults)[n])[g] = PreBucket(BlocksWithGroups(ptoks)[n])

\* C13 (amended): the groups of every word entry are the ungrouped bucket
\* (labels empty, the valid senses before the first topic or idiom marker),
\* if it has a sense, followed by one group per topic region that has a valid
\* sense, in document order, labelled from its heading; the labels of a
\* region without a heading are empty too.
C13_BucketThenRegions ==
    ppc = "done" =>
        /\ Len(WordEntries(presults)) = Len(BlocksWithGroups(ptoks))
        /\ \A n \in 1..Len(WordEntries(presults)) :
              GroupsShape(WordEntries(presults)[n]) = ExpectedGroups(BlocksWithGroups(ptoks)[n])

\* an entry came out with two groups whose labels are empty: the bucket and
\* the region of a topic section without a heading
C13_Witness ==
    /\ ppc = "done"
    /\ Len(presults) = 1
    /\ Len(presults[1].groups) = 2
    /\ \A g \in 1..2 : presults[1].groups[g].topic_en = << >> /\ presults[1].groups[g].topic_zh = << >>
    /\ \E m \in 1..Len(ptoks) : ptoks[m] = BareTopicPiece

\* C14: every iteration of the scan that stays in the loop moves the cursor
\* at least 12 bytes past the header it read, and no offset of the index lies
\* inside a header the scan has read.
C14_HeadersDoNotOverlap ==
    [][(pc = "scan" /\ pc' = "scan") =>
          /\ pos' >= pos + HeaderLen
          /\ \A h \in Headers(data, ScanStart) :
                \A i \in 1..Len(index') :
                    ~(h < index'[i].v /\ index'[i].v < h + HeaderLen)]_vars

\* C15: looking up a key of the index built by the scan finds it: the call
\* does not return None and reads the record at the offset stored under that
\* key.
C15_KeysAreFound ==
    (pc = "loaded" /\ fresh /\ looked /\ DictHas(index, word)) =>
        /\ result # None
        /\ result = ReadRecord(body, DictGet(index, word))

====
